---- MODULE Spec2Model ----
(***************************************************************************)
(* The conversation store, plan synthesizer, structured-output parser and  *)
(* chat router of backend/services/research_service.py.                    *)
(*                                                                         *)
(* Text.  A Python str is a sequence of tokens, each token a TLA+ string:  *)
(* punctuation of JSON ("{", "}", "[", "]", ",", ":", the double quote),   *)
(* the code fence of three backticks (Fence), white space, number and     *)
(* keyword literals, words, and the fixed phrases of the f-strings of the  *)
(* source.                                                                 *)
(* Slices, strip, lower, find, "in" and join are computed on tokens.       *)
(*                                                                         *)
(* Values.  A decoded JSON value (a Python object) is a tagged pair:       *)
(* <<"str", text>>, <<"num", hundredths>>, <<"nan", 0>>, <<"bool", b>>,    *)
(* <<"null", 0>>, <<"list", values>>, <<"dict", <<key text, value>> ...>>. *)
(***************************************************************************)
EXTENDS Integers, Sequences, FiniteSets, TLC

----------------------------------------------------------------------------
(* Local variables *)

\* Body(v), with v computed once: a local variable that the code assigns once
\* and reads many times
With(v, Body(_)) == CHOOSE result \in {Body(x) : x \in {v}} : TRUE

----------------------------------------------------------------------------
(* str methods *)

Min(a, b) == IF a <= b THEN a ELSE b

\* the token that stands for three backticks
Fence == "<fence>"

IsWs(t) == t \in {" ", "\n"}

RECURSIVE lstrip(_)
lstrip(s) == IF s # <<>> /\ IsWs(Head(s)) THEN lstrip(Tail(s)) ELSE s

RECURSIVE rstrip(_)
rstrip(s) ==
    IF s # <<>> /\ IsWs(s[Len(s)]) THEN rstrip(SubSeq(s, 1, Len(s) - 1)) ELSE s

\* str.strip()
strip(s) == rstrip(lstrip(s))

\* str.rstrip of backticks: the fence token is made of backticks only
RECURSIVE rstrip_backticks(_)
rstrip_backticks(s) ==
    IF s # <<>> /\ s[Len(s)] = Fence
    THEN rstrip_backticks(SubSeq(s, 1, Len(s) - 1))
    ELSE s

\* str.lower(), token by token: the tokens of the model that hold capitals
LowerTable ==
    << <<"Competitor", "competitor">>, <<"Pie", "pie">>, <<"SHOW", "show">>,
       <<"KPI", "kpi">>, <<"Deep-Dive", "deep-dive">>, <<"What", "what">>,
       <<"Why", "why">>, <<"Company", "company">>, <<"Profile", "profile">>,
       <<"Market", "market">>, <<"Analysis", "analysis">>,
       <<"Financial", "financial">>, <<"Highlights", "highlights">>,
       <<"Product", "product">>, <<"Portfolio", "portfolio">>,
       <<"Technology", "technology">>, <<"Stack", "stack">>,
       <<"Competitors", "competitors">>, <<"SWOT", "swot">>,
       <<"Opportunities", "opportunities">>, <<"Risks", "risks">>,
       <<"Day", "day">>, <<"Plan", "plan">>, <<"Full", "full">>,
       <<"Research", "research">>, <<"Output", "output">>,
       <<"Overview", "overview">> >>

lower_token(t) ==
    IF \E i \in 1..Len(LowerTable) : LowerTable[i][1] = t
    THEN LowerTable[CHOOSE i \in 1..Len(LowerTable) : LowerTable[i][1] = t][2]
    ELSE t

lower(s) == IF s = <<>> THEN <<>> ELSE [i \in 1..Len(s) |-> lower_token(s[i])]

\* sub in s
Contains(s, sub) ==
    \E i \in 1..(Len(s) - Len(sub) + 1) : SubSeq(s, i, i + Len(sub) - 1) = sub

\* s.startswith(p)
startswith(s, p) == Len(p) <= Len(s) /\ SubSeq(s, 1, Len(p)) = p

\* s[:n]
Take(s, n) == SubSeq(s, 1, Min(n, Len(s)))

\* s.find(t) and s.rfind(t) for a one-token t, 1-based; 0 stands for -1
find(s, t) ==
    IF \E i \in 1..Len(s) : s[i] = t
    THEN CHOOSE i \in 1..Len(s) : s[i] = t /\ \A j \in 1..(i - 1) : s[j] # t
    ELSE 0

rfind(s, t) ==
    IF \E i \in 1..Len(s) : s[i] = t
    THEN CHOOSE i \in 1..Len(s) : s[i] = t /\ \A j \in (i + 1)..Len(s) : s[j] # t
    ELSE 0

\* sep.join(items) for a sequence of texts
RECURSIVE join(_, _)
join(sep, items) ==
    IF items = <<>> THEN <<>>
    ELSE IF Len(items) = 1 THEN items[1]
    ELSE items[1] \o sep \o join(sep, Tail(items))

----------------------------------------------------------------------------
(* Python objects decoded from JSON *)

JStr(s) == <<"str", s>>
JNum(h) == <<"num", h>>
JNaN == <<"nan", 0>>
JNull == <<"null", 0>>
JBool(b) == <<"bool", b>>
JList(l) == <<"list", l>>
JDict(pairs) == <<"dict", pairs>>

IsStr(v) == v[1] = "str"
IsNum(v) == v[1] = "num"
IsNull(v) == v[1] = "null"
IsList(v) == v[1] = "list"
IsDict(v) == v[1] = "dict"

\* bool(v)
Truthy(v) ==
    CASE v[1] = "null" -> FALSE
      [] v[1] = "bool" -> v[2]
      [] v[1] = "num" -> v[2] # 0
      [] v[1] = "nan" -> TRUE
      [] OTHER -> v[2] # <<>>

\* d[key] = value on a dict's pairs: a repeated key keeps its place and takes
\* the later value
RECURSIVE DictPut(_, _, _)
DictPut(pairs, key, value) ==
    IF pairs = <<>> THEN << <<key, value>> >>
    ELSE IF Head(pairs)[1] = key THEN << <<key, value>> >> \o Tail(pairs)
    ELSE <<Head(pairs)>> \o DictPut(Tail(pairs), key, value)

HasKey(d, key) == \E i \in 1..Len(d[2]) : d[2][i][1] = key

\* d.get(key, default)
DictGet(d, key, default) ==
    IF HasKey(d, key)
    THEN d[2][CHOOSE i \in 1..Len(d[2]) : d[2][i][1] = key][2]
    ELSE default

----------------------------------------------------------------------------
(* json.loads on tokens *)

Quote == "\""

\* the number literals of the model and their values in hundredths
NumberTable ==
    << <<"0", 0>>, <<"0.5", 50>>, <<"0.86", 86>>, <<"1.5", 150>>,
       <<"9", 900>>, <<"35.0", 3500>>, <<"65.0", 6500>>, <<"96.7", 9670>> >>

IsNumberToken(t) == \E i \in 1..Len(NumberTable) : NumberTable[i][1] = t

NumberValue(t) ==
    NumberTable[CHOOSE i \in 1..Len(NumberTable) : NumberTable[i][1] = t][2]

NumberToken(h) ==
    NumberTable[CHOOSE i \in 1..Len(NumberTable) : NumberTable[i][2] = h][1]

Failed == [ok |-> FALSE, val |-> JNull, next |-> 0]

Parsed(v, n) == [ok |-> TRUE, val |-> v, next |-> n]

\* the first index at or after i that holds no white space (Len(s) + 1 at the end)
RECURSIVE SkipWs(_, _)
SkipWs(s, i) == IF i <= Len(s) /\ IsWs(s[i]) THEN SkipWs(s, i + 1) ELSE i

\* a string literal opening at s[i]: up to the next quote; a raw line break
\* inside it is a control character, which the strict decoder rejects
ParseString(s, i) ==
    With(SubSeq(s, i + 1, Len(s)), LAMBDA rest :
    With(find(rest, Quote), LAMBDA j :
        IF j = 0 \/ Contains(SubSeq(rest, 1, j - 1), <<"\n">>) THEN Failed
        ELSE Parsed(SubSeq(rest, 1, j - 1), i + j + 1)))

RECURSIVE ParseValue(_, _)
RECURSIVE ParseMembers(_, _, _)
RECURSIVE ParseElements(_, _, _)

\* one JSON value opening at s[i]
ParseValue(s, i) ==
    IF i > Len(s) THEN Failed
    ELSE With(s[i], LAMBDA t :
      CASE t = Quote ->
             With(ParseString(s, i), LAMBDA r :
                 IF r.ok THEN Parsed(JStr(r.val), r.next) ELSE Failed)
        [] t = "{" ->
             With(SkipWs(s, i + 1), LAMBDA j :
                 IF j <= Len(s) /\ s[j] = "}" THEN Parsed(JDict(<<>>), j + 1)
                 ELSE ParseMembers(s, j, <<>>))
        [] t = "[" ->
             With(SkipWs(s, i + 1), LAMBDA j :
                 IF j <= Len(s) /\ s[j] = "]" THEN Parsed(JList(<<>>), j + 1)
                 ELSE ParseElements(s, j, <<>>))
        [] t = "null" -> Parsed(JNull, i + 1)
        [] t = "true" -> Parsed(JBool(TRUE), i + 1)
        [] t = "false" -> Parsed(JBool(FALSE), i + 1)
        [] t = "NaN" -> Parsed(JNaN, i + 1)
        [] IsNumberToken(t) -> Parsed(JNum(NumberValue(t)), i + 1)
        [] OTHER -> Failed)

\* one "key": value pair of an object, s[i] being where the key must open;
\* next is the first index after the value that holds no white space
ParseMember(s, i) ==
    LET NoMember == [ok |-> FALSE, key |-> <<>>, val |-> JNull, next |-> 0]
    IN  IF i > Len(s) \/ s[i] # Quote THEN NoMember
        ELSE With(ParseString(s, i), LAMBDA k :
          IF ~k.ok THEN NoMember
          ELSE With(SkipWs(s, k.next), LAMBDA c :
            IF c > Len(s) \/ s[c] # ":" THEN NoMember
            ELSE With(ParseValue(s, SkipWs(s, c + 1)), LAMBDA v :
              IF ~v.ok THEN NoMember
              ELSE [ok |-> TRUE, key |-> k.val, val |-> v.val,
                    next |-> SkipWs(s, v.next)])))

\* the pairs of an object, s[i] being where the next key must open
ParseMembers(s, i, acc) ==
    With(ParseMember(s, i), LAMBDA m :
      IF ~m.ok \/ m.next > Len(s) THEN Failed
      ELSE IF s[m.next] = "}"
      THEN Parsed(JDict(DictPut(acc, m.key, m.val)), m.next + 1)
      ELSE IF s[m.next] = ","
      THEN ParseMembers(s, SkipWs(s, m.next + 1), DictPut(acc, m.key, m.val))
      ELSE Failed)

\* the elements of an array, s[i] being where the next element must open
ParseElements(s, i, acc) ==
    With(ParseValue(s, i), LAMBDA v :
      IF ~v.ok \/ SkipWs(s, v.next) > Len(s) THEN Failed
      ELSE IF s[SkipWs(s, v.next)] = "]"
      THEN Parsed(JList(Append(acc, v.val)), SkipWs(s, v.next) + 1)
      ELSE IF s[SkipWs(s, v.next)] = ","
      THEN ParseElements(s, SkipWs(s, SkipWs(s, v.next) + 1), Append(acc, v.val))
      ELSE Failed)

\* json.loads(s): one value, white space around it, nothing after it;
\* ok = FALSE is the JSONDecodeError
json_loads(s) ==
    With(ParseValue(s, SkipWs(s, 1)), LAMBDA v :
      IF v.ok /\ SkipWs(s, v.next) = Len(s) + 1 THEN v ELSE Failed)

----------------------------------------------------------------------------
(* json.dumps on tokens *)

RECURSIVE json_dumps(_)
RECURSIVE DumpItems(_)
RECURSIVE DumpPairs(_)

\* json.dumps(v) with the default separators ", " and ": "
json_dumps(v) ==
    CASE v[1] = "str" -> <<Quote>> \o v[2] \o <<Quote>>
      [] v[1] = "num" -> <<NumberToken(v[2])>>
      [] v[1] = "nan" -> <<"NaN">>
      [] v[1] = "null" -> <<"null">>
      [] v[1] = "bool" -> IF v[2] THEN <<"true">> ELSE <<"false">>
      [] v[1] = "list" -> <<"[">> \o DumpItems(v[2]) \o <<"]">>
      [] OTHER -> <<"{">> \o DumpPairs(v[2]) \o <<"}">>

DumpItems(l) ==
    IF l = <<>> THEN <<>>
    ELSE IF Len(l) = 1 THEN json_dumps(l[1])
    ELSE json_dumps(l[1]) \o <<",", " ">> \o DumpItems(Tail(l))

DumpPairs(p) ==
    IF p = <<>> THEN <<>>
    ELSE LET one == <<Quote>> \o p[1][1] \o <<Quote, ":", " ">> \o json_dumps(p[1][2])
         IN  IF Len(p) = 1 THEN one ELSE one \o <<",", " ">> \o DumpPairs(Tail(p))

----------------------------------------------------------------------------
(* The structured-output parser *)

\* _strip_code_fences(text)
_strip_code_fences(text) ==
    With(strip(text), LAMBDA cleaned :
      IF startswith(cleaned, <<Fence>>)
      THEN With(find(cleaned, "\n"), LAMBDA nl :
           \* cleaned.split("\n", 1)
           With(IF nl = 0 THEN <<cleaned>>
                ELSE <<SubSeq(cleaned, 1, nl - 1),
                       SubSeq(cleaned, nl + 1, Len(cleaned))>>, LAMBDA parts :
               strip(rstrip_backticks(
                   IF Len(parts) > 1 /\ startswith(strip(parts[1]), <<Fence>>)
                   THEN parts[2]
                   ELSE cleaned))))
      ELSE strip(cleaned))

\* the second attempt of _parse_llm_json: the text from its first "{" to its
\* last "}", else the empty dict
ParseBraced(cleaned) ==
    With(find(cleaned, "{"), LAMBDA start :
    With(rfind(cleaned, "}"), LAMBDA end :
      IF start # 0 /\ end # 0 /\ end > start
      THEN With(json_loads(SubSeq(cleaned, start, end)), LAMBDA inner :
               IF inner.ok THEN inner.val ELSE JDict(<<>>))
      ELSE JDict(<<>>)))

\* _parse_llm_json(raw): whatever json.loads returns for the cleaned text,
\* else what the second attempt gives
_parse_llm_json(raw) ==
    With(_strip_code_fences(raw), LAMBDA cleaned :
    With(json_loads(cleaned), LAMBDA whole :
      IF whole.ok THEN whole.val ELSE ParseBraced(cleaned)))

----------------------------------------------------------------------------
(* Optional[str] and floats *)

\* None
None == JNull

\* str(n) for a natural number, digit by digit
RECURSIVE str_int(_)
str_int(n) ==
    LET digit == <<"0", "1", "2", "3", "4", "5", "6", "7", "8", "9">>
    IN  IF n < 10 THEN <<digit[n + 1]>>
        ELSE str_int(n \div 10) \o <<digit[(n % 10) + 1]>>

\* float(v) under the try of the source: a float as <<"num", hundredths>> or
\* <<"nan", 0>>; [ok |-> FALSE] is the TypeError or ValueError
float(v) ==
    CASE v[1] = "num" -> [ok |-> TRUE, val |-> v]
      [] v[1] = "nan" -> [ok |-> TRUE, val |-> v]
      [] v[1] = "bool" -> [ok |-> TRUE, val |-> JNum(IF v[2] THEN 100 ELSE 0)]
      [] v[1] = "str" ->
           IF Len(strip(v[2])) = 1 /\ IsNumberToken(strip(v[2])[1])
           THEN [ok |-> TRUE, val |-> JNum(NumberValue(strip(v[2])[1]))]
           ELSE [ok |-> FALSE, val |-> JNum(0)]
      [] OTHER -> [ok |-> FALSE, val |-> JNum(0)]

----------------------------------------------------------------------------
(* models.py *)

\* the field names of AccountPlan, as the texts that getattr and hasattr take
AccountPlanFields ==
    { <<"company", "_", "name">>, <<"depth">>, <<"overview">>,
      <<"company", "_", "profile">>, <<"market", "_", "analysis">>,
      <<"financial", "_", "highlights">>, <<"product", "_", "portfolio">>,
      <<"technology", "_", "stack">>, <<"competitors">>, <<"swot">>,
      <<"opportunities">>, <<"risks">>,
      <<"account", "_", "plan", "_", "30", "_", "60", "_", "90">>,
      <<"kpi", "_", "summary">>, <<"sources">>, <<"metadata">>, <<"sections">> }

\* a CompanySection that drops its content
CompanySection_Blank(title, content) == [title |-> title, content |-> <<>>]

\* CompanySection(title=..., content=...)
CompanySection(title, content) == [title |-> title, content |-> content]

\* ResearchStep(id=..., label=..., status=..., detail=...)
ResearchStep(id, label, status, detail) ==
    [id |-> id, label |-> label, status |-> status, detail |-> detail]

\* what pydantic accepts for a field declared str.  (A number is coerced to
\* str by pydantic 1 and rejected by pydantic 2; no reply of this model puts a
\* number in a str field.)
ValidStr(v) == IsStr(v)

\* what pydantic accepts for Optional[List[Dict[str, Any]]]
ValidKpiSummary(v) ==
    IsNull(v) \/ (IsList(v) /\ \A i \in 1..Len(v[2]) : IsDict(v[2][i]))

----------------------------------------------------------------------------
(* The plan synthesizer *)

\* _now_iso(): the clock is not part of the model; every timestamp is this text
_now_iso == <<"<utc-timestamp>">>

\* the section titles of the source
TitleCompanyProfile == <<"Company", " ", "Profile">>
TitleMarketAnalysis == <<"Market", " ", "Analysis">>
TitleFinancialHighlights == <<"Financial", " ", "Highlights">>
TitleProductPortfolio == <<"Product", " ", "Portfolio">>
TitleTechnologyStack == <<"Technology", " ", "Stack">>
TitleCompetitors == <<"Competitors">>
TitleSwot == <<"SWOT", " ", "Analysis">>
TitleOpportunities == <<"Opportunities">>
TitleRisks == <<"Risks">>
TitlePlan306090 == <<"30", "-", "60", "-", "90", " ", "Day", " ", "Plan">>
TitleFullOutput == <<"Full", " ", "Research", " ", "Output">>

SnapshotHeading == <<" - Executive Snapshot:", "\n", "\n">>

PlanSummaryPlaceholder ==
    <<"Structured 30-60-90 Day Plan data is available below.">>

\* raw[:700], company_profile[:400] and market_analysis[:400], in tokens
RawPrefixLen == 700
SnippetPrefixLen == 400

\* _build_steps(rag_ctx, web_text)
_build_steps(rag_ctx, web_text) ==
    << ResearchStep("intent", <<"Understand user intent and depth">>, "complete",
                    <<"Parsed company name and research depth.">>),
       ResearchStep("rag_search", <<"RAG search on internal PDFs">>,
                    IF rag_ctx # <<>> THEN "complete" ELSE "skipped",
                    IF rag_ctx # <<>>
                    THEN <<"Retrieved ">> \o str_int(Len(rag_ctx))
                         \o <<" internal chunks.">>
                    ELSE <<"No RAG documents found.">>),
       ResearchStep("web_search", <<"External web search">>,
                    IF Truthy(web_text) THEN "complete" ELSE "skipped",
                    IF Truthy(web_text)
                    THEN <<"Web search executed via Serper.">>
                    ELSE <<"Web search unavailable or failed.">>),
       ResearchStep("llm_synthesis", <<"LLM synthesis of account plan">>,
                    "complete",
                    <<"LLM combined all signals into structured account plan.">>) >>

\* ResearchMetadata(...)
ResearchMetadata(depth, sources_used, steps, conflicts_detected, confidence_score) ==
    [generated_at |-> _now_iso, depth |-> depth, sources_used |-> sources_used,
     steps |-> steps, conflicts_detected |-> conflicts_detected,
     confidence_score |-> confidence_score]

\* the result of a call that returns a plan or raises: err = "" on return
Returned(plan) == [err |-> "", plan |-> plan]
Raised(err) == [err |-> err, plan |-> None]

\* the fallback branch of _build_account_plan_from_llm (not data)
FallbackPlan(raw, req, rag_ctx, web_text) ==
    [company_name |-> req.company_name,
     depth |-> req.depth,
     overview |-> req.company_name \o SnapshotHeading \o Take(raw, RawPrefixLen),
     company_profile |-> <<>>,
     market_analysis |-> <<>>,
     financial_highlights |-> <<>>,
     product_portfolio |-> <<>>,
     technology_stack |-> <<>>,
     competitors |-> <<>>,
     swot |-> <<>>,
     opportunities |-> <<>>,
     risks |-> <<>>,
     account_plan_30_60_90 |-> <<>>,
     kpi_summary |-> None,
     sources |-> None,
     metadata |-> ResearchMetadata(
         req.depth,
         (IF rag_ctx # <<>> THEN <<"rag">> ELSE <<>>)
             \o (IF Truthy(web_text) THEN <<"web">> ELSE <<>>),
         _build_steps(rag_ctx, web_text), FALSE, JNum(0)),
     sections |-> <<CompanySection(TitleFullOutput, raw)>>]

\* "\n\n".join(opportunities_points): a list of str, the characters of a str or
\* the keys of a dict are joined; anything else is a TypeError
JoinOpportunities(v) ==
    CASE v[1] = "list" ->
           IF \A i \in 1..Len(v[2]) : IsStr(v[2][i])
           THEN [ok |-> TRUE,
                 val |-> join(<<"\n", "\n">>, [i \in 1..Len(v[2]) |-> v[2][i][2]])]
           ELSE [ok |-> FALSE, val |-> <<>>]
      [] v[1] = "str" ->
           [ok |-> TRUE,
            val |-> join(<<"\n", "\n">>, [i \in 1..Len(v[2]) |-> <<v[2][i]>>])]
      [] v[1] = "dict" ->
           [ok |-> TRUE,
            val |-> join(<<"\n", "\n">>, [i \in 1..Len(v[2]) |-> v[2][i][1]])]
      [] OTHER -> [ok |-> FALSE, val |-> <<>>]

\* the structured branch of _build_account_plan_from_llm, data being a dict
StructuredPlan(data, req, rag_ctx, web_text) ==
    LET overview == DictGet(data, <<"overview">>, JStr(<<>>))
        company_profile == DictGet(data, <<"company", "_", "profile">>, JStr(<<>>))
        market_analysis == DictGet(data, <<"market", "_", "analysis">>, JStr(<<>>))
        financial_highlights ==
            DictGet(data, <<"financial", "_", "highlights">>, JStr(<<>>))
        product_portfolio == DictGet(data, <<"product", "_", "portfolio">>, JStr(<<>>))
        technology_stack == DictGet(data, <<"technology", "_", "stack">>, JStr(<<>>))
        competitors == DictGet(data, <<"competitors">>, JStr(<<>>))
        swot == DictGet(data, <<"swot">>, JStr(<<>>))
        risks == DictGet(data, <<"risks">>, JStr(<<>>))
        opportunities_points ==
            DictGet(data, <<"opportunities", "_", "points">>, JList(<<>>))
        plan_table == DictGet(data, <<"plan", "_", "table">>, JList(<<>>))
        swot_radar_scores == DictGet(data, <<"swot", "_", "radar", "_", "scores">>, None)
        competitor_chart_data ==
            DictGet(data, <<"competitor", "_", "chart", "_", "data">>, None)
        opportunities_text == JoinOpportunities(opportunities_points)
        plan_summary == PlanSummaryPlaceholder
        kpi_summary == DictGet(data, <<"kpi", "_", "summary">>, None)
        confidence_score_raw == DictGet(data, <<"confidence", "_", "score">>, None)
        confidence_score ==
            IF ~IsNull(confidence_score_raw) /\ float(confidence_score_raw).ok
            THEN float(confidence_score_raw).val
            ELSE JNum(0)
        conflicts_raw == DictGet(data, <<"conflicts">>, None)
        conflicts == IF Truthy(conflicts_raw) THEN conflicts_raw ELSE JList(<<>>)
        meta == ResearchMetadata(
                    req.depth,
                    (IF rag_ctx # <<>> THEN <<"rag">> ELSE <<>>)
                        \o (IF Truthy(web_text) THEN <<"web">> ELSE <<>>)
                        \o <<"llm">>,
                    _build_steps(rag_ctx, web_text),
                    Truthy(conflicts), confidence_score)
        contents == <<company_profile, market_analysis, financial_highlights,
                      product_portfolio, technology_stack, competitors, swot,
                      JStr(opportunities_text.val), risks, JStr(plan_summary)>>
        titles == <<TitleCompanyProfile, TitleMarketAnalysis,
                    TitleFinancialHighlights, TitleProductPortfolio,
                    TitleTechnologyStack, TitleCompetitors, TitleSwot,
                    TitleOpportunities, TitleRisks, TitlePlan306090>>
        final_overview ==
            IF ~Truthy(overview)
            THEN req.company_name \o SnapshotHeading
                 \o Take(company_profile[2], SnippetPrefixLen) \o <<"\n", "\n">>
                 \o Take(market_analysis[2], SnippetPrefixLen)
            ELSE overview[2]
    IN  IF ~opportunities_text.ok THEN Raised("TypeError")
        ELSE IF \E i \in 1..Len(contents) : ~ValidStr(contents[i])
        THEN Raised("ValidationError")
        ELSE IF Truthy(overview) /\ ~ValidStr(overview) THEN Raised("ValidationError")
        ELSE IF ~ValidKpiSummary(kpi_summary) THEN Raised("ValidationError")
        ELSE Returned(
          [company_name |-> req.company_name,
           depth |-> req.depth,
           overview |-> final_overview,
           company_profile |-> company_profile[2],
           market_analysis |-> market_analysis[2],
           financial_highlights |-> financial_highlights[2],
           product_portfolio |-> product_portfolio[2],
           technology_stack |-> technology_stack[2],
           competitors |-> competitors[2],
           swot |-> swot[2],
           opportunities |-> opportunities_text.val,
           risks |-> risks[2],
           account_plan_30_60_90 |-> plan_summary,
           kpi_summary |-> kpi_summary,
           sources |-> JDict(<< <<<<"swot", "_", "radar", "_", "scores">>,
                                  swot_radar_scores>>,
                                <<<<"competitor", "_", "chart", "_", "data">>,
                                  competitor_chart_data>>,
                                <<<<"plan", "_", "table">>, plan_table>> >>),
           metadata |-> meta,
           sections |-> [i \in 1..Len(titles) |->
                            CompanySection(titles[i], contents[i][2])]])

\* a synthesizer without the fallback branch
_build_account_plan_from_llm_NoFallback(raw, req, rag_ctx, web_text) ==
    With(_parse_llm_json(raw), LAMBDA data :
      IF ~IsDict(data) THEN Raised("AttributeError")
      ELSE StructuredPlan(data, req, rag_ctx, web_text))

\* _build_account_plan_from_llm(raw, req, rag_ctx, web_text)
_build_account_plan_from_llm(raw, req, rag_ctx, web_text) ==
    With(_parse_llm_json(raw), LAMBDA data :
      IF ~Truthy(data) THEN Returned(FallbackPlan(raw, req, rag_ctx, web_text))
      ELSE IF ~IsDict(data) THEN Raised("AttributeError")
      ELSE StructuredPlan(data, req, rag_ctx, web_text))

----------------------------------------------------------------------------
(* Formatting Python objects into text *)

RECURSIVE py_repr(_)
RECURSIVE ReprItems(_)
RECURSIVE ReprPairs(_)

\* repr(v)
py_repr(v) ==
    CASE v[1] = "str" -> <<"'">> \o v[2] \o <<"'">>
      [] v[1] = "num" -> <<NumberToken(v[2])>>
      [] v[1] = "nan" -> <<"nan">>
      [] v[1] = "null" -> <<"None">>
      [] v[1] = "bool" -> IF v[2] THEN <<"True">> ELSE <<"False">>
      [] v[1] = "list" -> <<"[">> \o ReprItems(v[2]) \o <<"]">>
      [] OTHER -> <<"{">> \o ReprPairs(v[2]) \o <<"}">>

ReprItems(l) ==
    IF l = <<>> THEN <<>>
    ELSE IF Len(l) = 1 THEN py_repr(l[1])
    ELSE py_repr(l[1]) \o <<",", " ">> \o ReprItems(Tail(l))

ReprPairs(p) ==
    IF p = <<>> THEN <<>>
    ELSE LET one == <<"'">> \o p[1][1] \o <<"'", ":", " ">> \o py_repr(p[1][2])
         IN  IF Len(p) = 1 THEN one ELSE one \o <<",", " ">> \o ReprPairs(Tail(p))

\* str(v), which an f-string applies to the value it embeds
py_str(v) == IF v[1] = "str" THEN v[2] ELSE py_repr(v)

\* the white space json.dumps(indent=2) puts before an item at a nesting level
RECURSIVE Indent(_)
Indent(level) == IF level = 0 THEN <<>> ELSE <<"  ">> \o Indent(level - 1)

RECURSIVE json_dumps_indent(_, _)
RECURSIVE DumpItemsIndent(_, _)
RECURSIVE DumpPairsIndent(_, _)

\* json.dumps(v, indent=2), v being written at the given nesting level
json_dumps_indent(v, level) ==
    CASE v[1] = "list" /\ v[2] # <<>> ->
           <<"[", "\n">> \o DumpItemsIndent(v[2], level + 1)
               \o <<"\n">> \o Indent(level) \o <<"]">>
      [] v[1] = "dict" /\ v[2] # <<>> ->
           <<"{", "\n">> \o DumpPairsIndent(v[2], level + 1)
               \o <<"\n">> \o Indent(level) \o <<"}">>
      [] OTHER -> json_dumps(v)

DumpItemsIndent(l, level) ==
    LET one == Indent(level) \o json_dumps_indent(l[1], level)
    IN  IF Len(l) = 1 THEN one
        ELSE one \o <<",", "\n">> \o DumpItemsIndent(Tail(l), level)

DumpPairsIndent(p, level) ==
    LET one == Indent(level) \o <<Quote>> \o p[1][1] \o <<Quote, ":", " ">>
               \o json_dumps_indent(p[1][2], level)
    IN  IF Len(p) = 1 THEN one
        ELSE one \o <<",", "\n">> \o DumpPairsIndent(Tail(p), level)

----------------------------------------------------------------------------
(* The requests and the collaborators' answers the model draws from *)

\* a JSON string holding one phrase
S(phrase) == JStr(<<phrase>>)

K(name) == <<name>>

\* a reply with every field of the schema of build_research_prompt
FullData ==
    JDict(<<
      <<K("overview"), S("Acme leads orbital launch.")>>,
      <<<<"company", "_", "profile">>, S("Acme builds rockets.")>>,
      <<<<"market", "_", "analysis">>, S("Launch demand grows.")>>,
      <<<<"financial", "_", "highlights">>, S("Revenue rose.")>>,
      <<<<"product", "_", "portfolio">>, S("Two launch vehicles.")>>,
      <<<<"technology", "_", "stack">>, S("Reusable boosters.")>>,
      <<K("competitors"), S("Bolt and Comet compete.")>>,
      <<K("swot"), S("Strong brand, thin margins.")>>,
      <<K("risks"), S("Launch failures.")>>,
      <<K("opportunities"), S("Cargo and defence.")>>,
      <<<<"account", "_", "plan", "_", "30", "_", "60", "_", "90">>,
        S("Meet buyers, pilot, expand.")>>,
      <<<<"opportunities", "_", "points">>,
        JList(<<S("Opportunity 1: lunar cargo."), S("Opportunity 2: defence.")>>)>>,
      <<<<"plan", "_", "table">>,
        JList(<<JDict(<< <<K("period"), S("30 days")>>,
                         <<K("focus"), S("Map buyers")>>,
                         <<K("metric"), S("Meetings held")>> >>)>>)>>,
      <<<<"swot", "_", "radar", "_", "scores">>,
        JDict(<< <<K("Strength"), JNum(900)>> >>)>>,
      <<<<"competitor", "_", "chart", "_", "data">>,
        JList(<<JDict(<< <<K("name"), S("Bolt")>>,
                         <<<<"share", "_", "percent">>, JNum(3500)>> >>),
                JDict(<< <<K("name"), S("Other")>>,
                         <<<<"share", "_", "percent">>, JNum(6500)>> >>)>>)>>,
      <<<<"kpi", "_", "summary">>,
        JList(<<JDict(<< <<K("name"), S("Revenue (B USD, latest year)")>>,
                         <<K("value"), JNum(9670)>> >>)>>)>>,
      <<K("conflicts"),
        JList(<<JDict(<< <<K("topic"), S("revenue")>>,
                         <<K("details"), S("Two revenue figures")>>,
                         <<<<"needs", "_", "deep", "_", "dive">>, JBool(TRUE)>> >>),
                JDict(<< <<K("topic"), S("headcount")>>,
                         <<K("details"), S("Two headcounts")>>,
                         <<<<"needs", "_", "deep", "_", "dive">>, JBool(TRUE)>> >>)>>)>>,
      <<<<"confidence", "_", "score">>, JNum(86)>> >>)

\* a reply with few fields: no chart data, no KPIs, no conflicts, a confidence
\* that is no number
SparseData ==
    JDict(<< <<<<"company", "_", "profile">>, S("Acme builds rockets.")>>,
             <<<<"confidence", "_", "score">>, S("high")>> >>)

\* a reply whose confidence lies outside [0, 1]
EagerData ==
    JDict(<< <<K("overview"), S("Acme leads orbital launch.")>>,
             <<K("conflicts"), JList(<<>>)>>,
             <<<<"confidence", "_", "score">>, JNum(150)>> >>)

\* replies whose fields have other types than the schema names
NullPointsData ==
    JDict(<< <<K("overview"), S("Acme leads orbital launch.")>>,
             <<<<"opportunities", "_", "points">>, JNull>> >>)

TextConflictsData ==
    JDict(<< <<K("overview"), S("Acme leads orbital launch.")>>,
             <<K("conflicts"), JList(<<S("revenue differs")>>)>> >>)

NanData ==
    JDict(<< <<K("overview"), S("Acme leads orbital launch.")>>,
             <<<<"confidence", "_", "score">>, JNaN>> >>)

NotJson == <<"not", " ", "json">>

\* what call_llm returns to start_research
Replies ==
    { json_dumps(FullData),
      <<Fence, "json", "\n">> \o json_dumps(SparseData) \o <<"\n", Fence>>,
      <<"Here", " ", "is", " ", "the", " ", "plan", ":", " ">>
          \o json_dumps(EagerData) \o <<" ", "Done.">>,
      NotJson,
      <<"{", "}">>,
      <<"{", "oops", "}">>,
      <<"(llm_error: ", "timeout", ")">>,
      <<"[", "9", "]">>,
      json_dumps(NullPointsData),
      json_dumps(TextConflictsData),
      json_dumps(NanData) }

\* what call_llm returns to chat_with_agent and generate_feedback
ChatReplies ==
    { <<"Lead with the reusable boosters.">>,
      json_dumps(JDict(<< <<<<"resolution", "_", "summary">>,
                            S("Use the audited figure.")>> >>)),
      <<"[", "9", "]">> }

\* StartResearchRequest
Requests ==
    { [company_name |-> <<"Acme", " ", "Corp">>, depth |-> "quick_summary",
       extra_instructions |-> None] }

\* what the retriever of search_context finds
RagResults == { <<>>, <<<<"Acme annual report, page 3">>, <<"Acme press kit">>>> }

\* what web_search returns: None without an API key; with one, a summary or
\* the text that describes a transport error
WebResults ==
    { None, S("Acme wins a launch contract."), JStr(<<"(serper_error: ", "timeout", ")">>) }

web_search(api_key) == IF api_key THEN WebResults \ {None} ELSE {None}

\* the identifiers uuid4 hands out, in the order it does, and one that it
\* never hands out
ConversationIds == <<"c1", "c2">>
UnknownId == "xyz"

\* a generator that hands out the same identifier again
uuid4_Reuse(store) == ConversationIds[1]

\* str(uuid.uuid4()): an identifier the store has not seen
uuid4(store) == ConversationIds[Cardinality(DOMAIN store) + 1]

Messages ==
    { <<"competitor", " ", "pie", " ", "and", " ", "show", " ", "kpi", " ", "chart">>,
      <<" ", "SHOW", " ", "KPI", "\n">>,
      <<"swot", " ", "radar">>,
      <<"Deep-Dive", " ", "on", " ", "revenue">>,
      <<"dig", " ", "deeper">>,
      <<"edit", " ", "a", " ", "section">>,
      <<"What", " ", "next", "?">> }

EditTitles ==
    { TitleCompanyProfile, TitleSwot, TitlePlan306090, TitleFullOutput, <<"Overview">> }

EditContents == { <<"Focus on EMEA expansion.">> }

\* the number of requests a behaviour serves
MaxOps == 3

----------------------------------------------------------------------------
(* The conversation store *)

\* one chat turn of a transcript
Turn(user, assistant) == [user |-> user, assistant |-> assistant]

\* a value or the exception that took its place: err = "" on return
Ok(v) == [err |-> "", val |-> v]
Err(e) == [err |-> e, val |-> <<>>]

PipelineUser == <<"System Initiated Pipeline">>

\* _generate_pipeline_history(plan, conflicts_to_resolve)
_generate_pipeline_history(plan, conflicts_to_resolve) ==
    LET steps == plan.metadata.steps
        web_step_complete ==
            \E i \in 1..Len(steps) :
                steps[i].id = "web_search" /\ steps[i].status = "complete"
        web_detail == IF web_step_complete
                      THEN <<"Web search executed via Serper.">>
                      ELSE <<"Skipped or failed to execute external web search.">>
        rag_detail ==
            IF \E i \in 1..Len(steps) : steps[i].id = "rag_search"
            THEN steps[CHOOSE i \in 1..Len(steps) :
                           /\ steps[i].id = "rag_search"
                           /\ \A j \in 1..(i - 1) : steps[j].id # "rag_search"].detail
            ELSE <<"No RAG process initiated.">>
        pipeline_history ==
            << Turn(PipelineUser,
                    <<"Starting research pipeline for **">> \o plan.company_name
                        \o <<"** at ", plan.depth, " depth.">>),
               Turn(PipelineUser,
                    <<"Step 1 of 4: Searching external web sources and news. Status: ">>
                        \o web_detail),
               Turn(PipelineUser,
                    <<"Step 2 of 4: Querying internal RAG documents/data sources. Status: ">>
                        \o rag_detail),
               Turn(PipelineUser,
                    <<"Step 3 of 4: Accessing financial and competitor MCP server tools.">>),
               Turn(PipelineUser,
                    <<"Step 4 of 4: Synthesizing all findings and detecting conflicts using the core LLM.">>) >>
        c == conflicts_to_resolve
        first_conflict == IF IsList(c) THEN c[2][1] ELSE JStr(<<c[2][1]>>)
        topic == DictGet(first_conflict, <<"topic">>,
                         JStr(<<"key company information">>))
        details == DictGet(first_conflict, <<"details">>,
                           JStr(<<"Differing reports detected between sources.">>))
        conflict_intro ==
            <<"Research synthesis is complete. However, a significant conflict was found regarding **">>
                \o topic[2] \o <<"**. Details: ">> \o details[2]
                \o <<". This data discrepancy means the plan's confidence is lower. To proceed, should I: 1) Ignore the less-detailed source and continue, or 2) Conduct a deep-dive search specifically on this topic? For example, you can say: **deep-dive on ">>
                \o topic[2] \o <<"**.">>
        score == plan.metadata.confidence_score
        plain_intro ==
            <<"Research for **">> \o plan.company_name
                \o <<"** is complete, and the account plan has been generated. Current confidence estimate: ">>
                \o str_int(score[2])
                \o <<" percent. What would you like to do next? For example, you can ask to **'Show me the Competitor Pie Chart'**, **'Show me SWOT Analysis graph'**, or **'Edit the 30-60-90 Day Plan'**.">>
        final(agent_intro) ==
            Ok(Append(pipeline_history,
                      Turn(<<"System Initiated Research">>, agent_intro)))
    IN  IF plan.metadata.conflicts_detected /\ Truthy(c)
        THEN IF IsDict(c) THEN Err("KeyError")
             ELSE IF ~(IsList(c) \/ IsStr(c)) THEN Err("TypeError")
             ELSE IF ~IsDict(first_conflict) THEN Err("AttributeError")
             ELSE IF ~IsStr(topic) \/ ~IsStr(details) THEN Err("TypeError")
             ELSE final(conflict_intro)
        ELSE IF score[1] = "nan" THEN Err("ValueError")
             ELSE final(plain_intro)

\* the state start_research stores under a new identifier
ConversationState(plan, history, conflicts_to_resolve) ==
    [plan |-> plan, history |-> history,
     conflicts_to_resolve |-> conflicts_to_resolve]

\* the reply of a handler: the store it leaves, the exception it raised (""
\* when it returned), what it returned, the branch that answered, the prompt
\* it sent to the model and the calls it made to the model and to web search
Response(store, err, reply, branch, prompt, llm_calls, web_calls) ==
    [store |-> store, err |-> err, reply |-> reply, branch |-> branch,
     prompt |-> prompt, llm_calls |-> llm_calls, web_calls |-> web_calls]

InvalidConversationReply ==
    <<"Invalid conversation ID. Please start a new research session.">>

KpiUnavailableReply ==
    <<"I apologize, the financial KPI data summary is not available for this plan depth. Would you like to run a 'deep-dive on financials'?">>

EditHelpReply ==
    <<"You can edit a specific section by specifying which section and the new focus. For example: Edit the 30-60-90 Day Plan to focus on EMEA expansion.">>

\* plan.overview[:500] and the other snippets of the chat prompt, in tokens
ContextPrefixLen == 500

\* the lines of a transcript with the newest turn first
HistText_NewestFirst(history) ==
    join(<<"\n">>,
         [i \in 1..Len(history) |->
             <<"User: ">> \o history[Len(history) + 1 - i].user
                 \o <<"\n", "Assistant: ">>
                 \o history[Len(history) + 1 - i].assistant])

\* the "User: ...\nAssistant: ..." lines of a transcript, joined by line breaks
HistText(history) ==
    join(<<"\n">>,
         [i \in 1..Len(history) |->
             <<"User: ">> \o history[i].user \o <<"\n", "Assistant: ">>
                 \o history[i].assistant])

\* the user prompt of the free-form branch of chat_with_agent
ChatPrompt(plan, history, user_message) ==
    LET hist_text == HistText(history)
        plan_summary_for_context ==
            <<"\n", "    Company: ">> \o plan.company_name
                \o <<"\n", "    Overview: ">> \o Take(plan.overview, ContextPrefixLen)
                \o <<"\n", "    Competitors: ">>
                \o Take(plan.competitors, ContextPrefixLen)
                \o <<"\n", "    Market Analysis: ">>
                \o Take(plan.market_analysis, ContextPrefixLen)
                \o <<"\n", "    Financials: ">>
                \o Take(plan.financial_highlights, ContextPrefixLen)
                \o <<"\n", "    ">>
    IN  <<"\n", "Continue the enterprise research dialog for the following company and account plan.",
          "\n", "Use the Plan Data Snippets to provide context-aware answers.",
          "\n", "\n", "Plan Data Snippets:", "\n">>
            \o plan_summary_for_context
            \o <<"\n", "\n", "Conversation so far:", "\n">>
            \o (IF hist_text # <<>> THEN hist_text ELSE <<"(no prior turns)">>)
            \o <<"\n", "\n", "User question:", "\n">> \o user_message
            \o <<"\n", "\n", "Requirements:", "\n",
                 "- Give a concise, insight-rich answer based on the plan data.", "\n",
                 "- **PROACTIVE RULE**: At the end of your answer, add ONE short, high-value follow-up offer, for example:",
                 "\n",
                 "  \"Would you like me to go deeper into competitors, financials, or market trends?\"",
                 "\n">>

\* the structured chart reply of chat_with_agent, before json.dumps
ChartRequest(chart_type, chart_data, chart_title) ==
    JDict(<< <<<<"reply", "_", "type">>, JStr(<<"chart", "_", "request">>)>>,
             <<<<"chart", "_", "type">>, JStr(<<chart_type>>)>>,
             <<<<"data">>, chart_data>>,
             <<<<"title">>, JStr(chart_title)>>,
             <<<<"narrative">>,
               JStr(<<"Here is the visual breakdown of the ">> \o chart_title
                    \o <<" data, available for rendering as a chart in the workspace.">>)>> >>)

\* the tests chat_with_agent makes on the lower-cased message
WantsCompetitorChart(m) ==
    Contains(m, <<"competitor">>) /\ (Contains(m, <<"pie">>) \/ Contains(m, <<"chart">>))

WantsSwotChart(m) ==
    /\ Contains(m, <<"swot">>)
    /\ (Contains(m, <<"graph">>) \/ Contains(m, <<"radar">>) \/ Contains(m, <<"chart">>))

WantsKpi(m) ==
    /\ Contains(m, <<"show">>)
    /\ (Contains(m, <<"kpi">>) \/ Contains(m, <<"chart">>) \/ Contains(m, <<"graph">>))

WantsDeepDive(m) ==
    Contains(m, <<"deep-dive">>) \/ Contains(m, <<"dig", " ", "deeper">>)

WantsEditHelp(m) == Contains(m, <<"edit">>) /\ Contains(m, <<"section">>)

\* chart_data as the first if/elif of chat_with_agent leaves it, plan.sources
\* being a dict
ChartData(plan, m) ==
    IF WantsCompetitorChart(m)
    THEN DictGet(plan.sources, <<"competitor", "_", "chart", "_", "data">>, None)
    ELSE IF WantsSwotChart(m)
    THEN DictGet(plan.sources, <<"swot", "_", "radar", "_", "scores">>, None)
    ELSE None

\* the if-chain without the test for edit help: such a message falls through
\* to the model
Route_NoEditHelp(state, message) ==
    LET m == lower(strip(message))
        plan == state.plan
    IN  IF (WantsCompetitorChart(m) \/ WantsSwotChart(m))
           /\ (~IsDict(plan.sources) \/ Truthy(ChartData(plan, m)))
        THEN "chart"
        ELSE IF WantsKpi(m) THEN "kpi"
        ELSE IF Truthy(state.conflicts_to_resolve) /\ WantsDeepDive(m) THEN "conflict"
        ELSE "default"

\* the if-chain with the KPI test moved in front of the chart test
Route_KpiFirst(state, message) ==
    LET m == lower(strip(message))
        plan == state.plan
    IN  IF WantsKpi(m) THEN "kpi"
        ELSE IF (WantsCompetitorChart(m) \/ WantsSwotChart(m))
                /\ (~IsDict(plan.sources) \/ Truthy(ChartData(plan, m)))
        THEN "chart"
        ELSE IF Truthy(state.conflicts_to_resolve) /\ WantsDeepDive(m) THEN "conflict"
        ELSE IF WantsEditHelp(m) THEN "edit_help"
        ELSE "default"

\* the branch of chat_with_agent that serves a message of a known
\* conversation: the if-chain of the handler, in its order.  A chart request
\* on a plan whose sources are None stays in the chart branch, where
\* plan.sources.get raises.
Route(state, message) ==
    LET m == lower(strip(message))
        plan == state.plan
    IN  IF (WantsCompetitorChart(m) \/ WantsSwotChart(m))
           /\ (~IsDict(plan.sources) \/ Truthy(ChartData(plan, m)))
        THEN "chart"
        ELSE IF WantsKpi(m) THEN "kpi"
        ELSE IF Truthy(state.conflicts_to_resolve) /\ WantsDeepDive(m) THEN "conflict"
        ELSE IF WantsEditHelp(m) THEN "edit_help"
        ELSE "default"

\* chat_with_agent(req) on the store, new_web_data and llm_reply being what
\* web_search and call_llm return on the branches that call them
chat_with_agent(store, conversation_id, message, new_web_data, llm_reply) ==
    IF conversation_id \notin DOMAIN store
    THEN Response(store, "", InvalidConversationReply, "invalid", <<>>, 0, 0)
    ELSE
    LET state == store[conversation_id]
        plan == state.plan
        history == state.history
        conflicts == state.conflicts_to_resolve
        user_message == strip(message)
        user_message_lower == lower(user_message)
        branch == Route(state, message)
        chart_type == IF WantsCompetitorChart(user_message_lower) THEN "pie" ELSE "radar"
        chart_title == IF WantsCompetitorChart(user_message_lower)
                       THEN <<"Competitor Share Breakdown">>
                       ELSE <<"SWOT Analysis Scores">>
        \* history.append({...}) and the return of the reply
        answer(st, reply, prompt, llm_calls, web_calls) ==
            Response([store EXCEPT ![conversation_id] =
                         [st EXCEPT !.history =
                             Append(st.history, Turn(user_message, reply))]],
                     "", reply, branch, prompt, llm_calls, web_calls)
        \* an exception leaves the handler with the store as st
        raise(st, err, prompt, llm_calls, web_calls) ==
            Response([store EXCEPT ![conversation_id] = st],
                     err, <<>>, branch, prompt, llm_calls, web_calls)
        kpi_reply ==
            IF Truthy(plan.kpi_summary)
            THEN <<"Here is the structured KPI data required for visualization: ",
                   Fence, "json", "\n">>
                     \o json_dumps_indent(plan.kpi_summary, 0)
                     \o <<"\n", Fence, " ",
                          "You can use this to render a chart (e.g., bar chart for Revenue/Growth). Next Step: Would you like to review the updated competitors section or discuss the risks?">>
            ELSE KpiUnavailableReply
        \* conflicts.pop(0) shrinks the stored list itself
        conflict_to_resolve == conflicts[2][1]
        remaining == JList(Tail(conflicts[2]))
        popped == [state EXCEPT !.conflicts_to_resolve = remaining]
        topic == DictGet(conflict_to_resolve, <<"topic">>,
                         JStr(<<"data discrepancy">>))
        resolution_prompt ==
            <<"You must resolve the following conflict in the account plan for ">>
                \o plan.company_name
                \o <<".", "\n", "Conflict topic: ">> \o py_str(topic)
                \o <<".", "\n", "New research data: ">>
                \o (IF Truthy(new_web_data) THEN new_web_data[2]
                    ELSE <<"No new data found.">>)
                \o <<"\n">>
        reply_summary(resolution_data) ==
            DictGet(resolution_data, <<"resolution", "_", "summary">>,
                    JStr(<<"The conflict could not be fully resolved with the available new data.">>))
        resolution_reply(resolution_data) ==
            <<"Conflict resolution for topic '">> \o py_str(topic)
                \o <<"' is complete. Summary: ">>
                \o py_str(reply_summary(resolution_data))
                \o <<" There are ">> \o str_int(Len(remaining[2]))
                \o <<" remaining conflicts. You can also ask to review updated sections such as competitors or market analysis.">>
    IN  CASE branch = "chart" ->
               IF ~IsDict(plan.sources) THEN raise(state, "AttributeError", <<>>, 0, 0)
               ELSE answer(state,
                           json_dumps(ChartRequest(chart_type,
                                                   ChartData(plan, user_message_lower),
                                                   chart_title)),
                           <<>>, 0, 0)
          [] branch = "kpi" -> answer(state, kpi_reply, <<>>, 0, 0)
          [] branch = "conflict" ->
               IF ~IsList(conflicts)
               THEN raise(state,
                          IF IsDict(conflicts) THEN "KeyError" ELSE "AttributeError",
                          <<>>, 0, 0)
               ELSE IF ~IsDict(conflict_to_resolve)
               THEN raise(popped, "AttributeError", <<>>, 0, 0)
               ELSE With(_parse_llm_json(llm_reply), LAMBDA resolution_data :
                      IF ~IsDict(resolution_data)
                      THEN raise(popped, "AttributeError", resolution_prompt, 1, 1)
                      ELSE answer(popped, resolution_reply(resolution_data),
                                  resolution_prompt, 1, 1))
          [] branch = "edit_help" -> answer(state, EditHelpReply, <<>>, 0, 0)
          [] OTHER ->
               answer(state, llm_reply, ChatPrompt(plan, history, user_message), 1, 0)

\* str.replace("__", "_"): each pair of underscores, left to right, once
RECURSIVE ReplaceDoubleUnderscore(_)
ReplaceDoubleUnderscore(s) ==
    IF Len(s) < 2 THEN s
    ELSE IF s[1] = "_" /\ s[2] = "_"
    THEN <<"_">> \o ReplaceDoubleUnderscore(SubSeq(s, 3, Len(s)))
    ELSE <<s[1]>> \o ReplaceDoubleUnderscore(Tail(s))

\* a normalization that only lower-cases the title
AttrName_LowerOnly(section_title) == lower(section_title)

\* section_title.lower().replace(" ", "_").replace("-", "_").replace("__", "_")
AttrName(section_title) ==
    LET low == lower(section_title)
        unders == IF low = <<>> THEN <<>>
                  ELSE [i \in 1..Len(low) |->
                           IF low[i] = " " \/ low[i] = "-" THEN "_" ELSE low[i]]
    IN  ReplaceDoubleUnderscore(unders)

\* setattr(plan, attr_name, value) for the fields update_account_plan_section
\* may write
SetAttr(plan, attr_name, value) ==
    CASE attr_name = <<"company", "_", "name">> -> [plan EXCEPT !.company_name = value]
      [] attr_name = <<"depth">> -> [plan EXCEPT !.depth = value]
      [] attr_name = <<"overview">> -> [plan EXCEPT !.overview = value]
      [] attr_name = <<"company", "_", "profile">> ->
           [plan EXCEPT !.company_profile = value]
      [] attr_name = <<"market", "_", "analysis">> ->
           [plan EXCEPT !.market_analysis = value]
      [] attr_name = <<"financial", "_", "highlights">> ->
           [plan EXCEPT !.financial_highlights = value]
      [] attr_name = <<"product", "_", "portfolio">> ->
           [plan EXCEPT !.product_portfolio = value]
      [] attr_name = <<"technology", "_", "stack">> ->
           [plan EXCEPT !.technology_stack = value]
      [] attr_name = <<"competitors">> -> [plan EXCEPT !.competitors = value]
      [] attr_name = <<"swot">> -> [plan EXCEPT !.swot = value]
      [] attr_name = <<"opportunities">> -> [plan EXCEPT !.opportunities = value]
      [] attr_name = <<"risks">> -> [plan EXCEPT !.risks = value]
      [] attr_name = <<"account", "_", "plan", "_", "30", "_", "60", "_", "90">> ->
           [plan EXCEPT !.account_plan_30_60_90 = value]
      [] attr_name = <<"kpi", "_", "summary">> ->
           [plan EXCEPT !.kpi_summary = JStr(value)]
      [] OTHER -> plan

\* a search that settles for the first section when no title matches
FindSection_FirstWhenMissing(sections, section_title) ==
    IF \E i \in 1..Len(sections) : sections[i].title = section_title
    THEN CHOOSE i \in 1..Len(sections) :
             /\ sections[i].title = section_title
             /\ \A j \in 1..(i - 1) : sections[j].title # section_title
    ELSE 1

\* the index of the first section with the title, 0 when there is none
FindSection(sections, section_title) ==
    IF \E i \in 1..Len(sections) : sections[i].title = section_title
    THEN CHOOSE i \in 1..Len(sections) :
             /\ sections[i].title = section_title
             /\ \A j \in 1..(i - 1) : sections[j].title # section_title
    ELSE 0

\* an edit that starts the transcript anew with its audit turn
update_account_plan_section_ResetsHistory(store, conversation_id, section_title, new_content) ==
    IF conversation_id \notin DOMAIN store THEN [store |-> store, ok |-> FALSE]
    ELSE
    LET state == store[conversation_id]
        plan == state.plan
        found == FindSection(plan.sections, section_title)
        attr_name == AttrName(section_title)
        edited == [plan EXCEPT !.sections[found].content = new_content]
        synced ==
            IF attr_name \in AccountPlanFields
               /\ attr_name \notin {<<"sections">>, <<"metadata">>, <<"sources">>}
            THEN SetAttr(edited, attr_name, new_content)
            ELSE edited
        audit ==
            Turn(<<"System Edit: Update '">> \o section_title \o <<"'">>,
                 <<"The section '">> \o section_title
                     \o <<"' has been updated with the new content.">>)
    IN  IF found # 0
        THEN [store |-> [store EXCEPT ![conversation_id] =
                            [state EXCEPT !.plan = synced, !.history = <<audit>>]],
              ok |-> TRUE]
        ELSE [store |-> store, ok |-> FALSE]

\* an edit that overwrites every display section
update_account_plan_section_AllSections(store, conversation_id, section_title, new_content) ==
    IF conversation_id \notin DOMAIN store THEN [store |-> store, ok |-> FALSE]
    ELSE
    LET state == store[conversation_id]
        plan == state.plan
        found == FindSection(plan.sections, section_title)
        edited == [plan EXCEPT !.sections =
                      [i \in 1..Len(plan.sections) |->
                          CompanySection(plan.sections[i].title, new_content)]]
        audit ==
            Turn(<<"System Edit: Update '">> \o section_title \o <<"'">>,
                 <<"The section '">> \o section_title
                     \o <<"' has been updated with the new content.">>)
    IN  IF found # 0
        THEN [store |-> [store EXCEPT ![conversation_id] =
                            [state EXCEPT !.plan = edited,
                                          !.history = Append(state.history, audit)]],
              ok |-> TRUE]
        ELSE [store |-> store, ok |-> FALSE]

\* update_account_plan_section(conversation_id, section_title, new_content):
\* the store it leaves and the boolean it returns
update_account_plan_section(store, conversation_id, section_title, new_content) ==
    IF conversation_id \notin DOMAIN store THEN [store |-> store, ok |-> FALSE]
    ELSE
    LET state == store[conversation_id]
        plan == state.plan
        found == FindSection(plan.sections, section_title)
        attr_name == AttrName(section_title)
        edited == [plan EXCEPT !.sections[found].content = new_content]
        synced ==
            IF attr_name \in AccountPlanFields
               /\ attr_name \notin {<<"sections">>, <<"metadata">>, <<"sources">>}
            THEN SetAttr(edited, attr_name, new_content)
            ELSE edited
        audit ==
            Turn(<<"System Edit: Update '">> \o section_title \o <<"'">>,
                 <<"The section '">> \o section_title
                     \o <<"' has been updated with the new content.">>)
    IN  IF found # 0
        THEN [store |-> [store EXCEPT ![conversation_id] =
                            [state EXCEPT !.plan = synced,
                                          !.history = Append(state.history, audit)]],
              ok |-> TRUE]
        ELSE [store |-> store, ok |-> FALSE]

InvalidFeedbackReply == <<"Invalid conversation ID.">>

\* a generate_feedback that asks the model without looking the identifier up
generate_feedback_NoLookup(store, conversation_id, llm_reply) ==
    Response(store, "", llm_reply, "feedback", <<>>, 1, 0)

\* a generate_feedback that records the request as a chat turn
generate_feedback_RecordsTurn(store, conversation_id, llm_reply) ==
    IF conversation_id \notin DOMAIN store
    THEN Response(store, "", InvalidFeedbackReply, "invalid", <<>>, 0, 0)
    ELSE Response([store EXCEPT ![conversation_id].history =
                      Append(@, Turn(<<"feedback">>, llm_reply))],
                  "", llm_reply, "feedback", <<>>, 1, 0)

\* generate_feedback(req), llm_reply being what call_llm returns
generate_feedback(store, conversation_id, llm_reply) ==
    IF conversation_id \notin DOMAIN store
    THEN Response(store, "", InvalidFeedbackReply, "invalid", <<>>, 0, 0)
    ELSE LET state == store[conversation_id]
             hist == HistText(state.history)
             prompt == <<"\n", "You are reviewing an enterprise account plan.", "\n",
                         "...", "\n">>
         IN  Response(store, "", llm_reply, "feedback", prompt, 1, 0)

\* get_conversation_state(conversation_id): the stored state, or None
get_conversation_state(store, conversation_id) ==
    IF conversation_id \in DOMAIN store THEN store[conversation_id] ELSE None

----------------------------------------------------------------------------
(* start_research *)

\* parsed.get("conflicts", []) if isinstance(parsed, dict) else []
ConflictsToResolve(parsed) ==
    IF IsDict(parsed) THEN DictGet(parsed, <<"conflicts">>, JList(<<>>))
    ELSE JList(<<>>)

\* start_research(req) with identifier cid from uuid4, rag_ctx, web_text and
\* raw being what search_context, web_search and call_llm return: the store it
\* leaves, the exception it raised ("" when it returned) and the plan returned
start_research(store, req, cid, rag_ctx, web_text, raw) ==
    With(_build_account_plan_from_llm(raw, req, rag_ctx, web_text), LAMBDA built :
      IF built.err # "" THEN [store |-> store, err |-> built.err, plan |-> None]
      ELSE
      With(ConflictsToResolve(_parse_llm_json(raw)), LAMBDA conflicts_to_resolve :
      With(_generate_pipeline_history(built.plan, conflicts_to_resolve),
           LAMBDA initial_history :
             [store |-> [c \in DOMAIN store \cup {cid} |->
                            IF c = cid
                            THEN ConversationState(built.plan, initial_history.val,
                                                   conflicts_to_resolve)
                            ELSE store[c]],
              err |-> initial_history.err,
              plan |-> IF initial_history.err = "" THEN built.plan ELSE None])))

----------------------------------------------------------------------------
(* The streaming orchestrator: stream_llm, _sse and stream_research *)

\* str.replace("\n", " ")
replace_newlines(data) ==
    IF data = <<>> THEN <<>>
    ELSE [i \in 1..Len(data) |-> IF data[i] = "\n" THEN " " ELSE data[i]]

\* _sse(event, data): one server-sent-event frame, as text
_sse(event, data) ==
    <<"event: ", event, "\n", "data: ">> \o replace_newlines(data) \o <<"\n", "\n">>

\* a chunk of the Groq stream: whether choices[0] has a delta, and the
\* delta's content (a str or None)
Chunk(delta, content) == [delta |-> delta, content |-> content]

\* what the Groq client does with a streaming request: create raises e, or
\* returns a stream of chunks
CreateRaises(e) == [created |-> FALSE, e |-> e, stream |-> <<>>]
CreateReturns(stream) == [created |-> TRUE, e |-> "", stream |-> stream]

LlmStreams ==
    { CreateRaises("timeout"),
      CreateReturns(<<>>),
      CreateReturns(<< Chunk(TRUE, JStr(<<" ">>)), Chunk(TRUE, JStr(<<"\n", "\n">>)) >>),
      CreateReturns(<< Chunk(TRUE, JStr(<<"Acme">>)),
                       Chunk(TRUE, JStr(<<" ", "leads">>)) >>),
      CreateReturns(<< Chunk(TRUE, JStr(<<"{">>)),
                       Chunk(TRUE, JStr(<<"\n", " ">>)),
                       Chunk(TRUE, None),
                       Chunk(FALSE, None),
                       Chunk(TRUE, JStr(<<>>)),
                       Chunk(TRUE, JStr(<<Quote, "overview", Quote, ":", "\n", "1", "}">>)) >>) }

\* a stream_llm that yields the chunks last first
stream_llm_Reversed(groq) ==
    IF ~groq.created THEN << <<"(llm_stream_error: ", groq.e, ")">> >>
    ELSE LET kept == SelectSeq(groq.stream,
                               LAMBDA chunk : chunk.delta /\ Truthy(chunk.content))
         IN  IF kept = <<>> THEN <<>>
             ELSE [i \in 1..Len(kept) |-> kept[Len(kept) + 1 - i].content[2]]

\* stream_llm(system_prompt, user_prompt): the chunks the generator yields,
\* groq being what the client does with the request
stream_llm(groq) ==
    IF ~groq.created THEN << <<"(llm_stream_error: ", groq.e, ")">> >>
    ELSE LET kept == SelectSeq(groq.stream,
                               LAMBDA chunk : chunk.delta /\ Truthy(chunk.content))
         IN  IF kept = <<>> THEN <<>>
             ELSE [i \in 1..Len(kept) |-> kept[i].content[2]]

\* the frames stream_research yields before it calls the model
StatusFrames(rag_ctx, web_text) ==
    << _sse("status", <<"Understanding intent and preparing research pipeline.">>),
       _sse("status", <<"Searching internal RAG documents.">>),
       _sse("status", <<"RAG search complete. ">> \o str_int(Len(rag_ctx))
                          \o <<" internal chunks found.">>),
       _sse("status", <<"Running external web search.">>),
       _sse("status",
            IF Truthy(web_text) THEN <<"Web search complete.">>
            ELSE <<"Web search unavailable. Continuing with RAG and LLM synthesis.">>),
       _sse("status",
            <<"Synthesizing account plan with LLM and checking for conflicts.">>) >>

\* closing frames that announce the end before the closing status
ClosingFrames_DoneFirst ==
    << _sse("done", <<"true">>),
       _sse("status", <<"Research synthesis complete. Checking for data conflicts.">>),
       _sse("status", <<"Plan ready. Conversation starting.">>) >>

\* the frames stream_research yields after the loop over the chunks
ClosingFrames ==
    << _sse("status", <<"Research synthesis complete. Checking for data conflicts.">>),
       _sse("status", <<"Plan ready. Conversation starting.">>),
       _sse("done", <<"true">>) >>

\* the chunks from the first one that "if chunk.strip()" lets through
RECURSIVE SkipBlank(_)
SkipBlank(chunks) ==
    IF chunks # <<>> /\ strip(Head(chunks)) = <<>> THEN SkipBlank(Tail(chunks))
    ELSE chunks

\* a generator of stream_research: where it is suspended (pc, and at being
\* the number of the frame it yielded there), its locals, what the Groq
\* client did, the chunks stream_llm has yet to yield, and the frames drained
Generator(pc, at, req, rag_ctx, web_text, groq, chunks, out) ==
    [pc |-> pc, at |-> at, req |-> req, rag_ctx |-> rag_ctx, web_text |-> web_text,
     groq |-> groq, chunks |-> chunks, out |-> out]

\* no stream_research has been called
NoGenerator ==
    Generator("none", 0, None, <<>>, None, CreateReturns(<<>>), <<>>, <<>>)

\* the loop "for chunk in stream_llm(...)" run up to its next yield, and past
\* its end up to the first closing frame
NextToken(g, chunks) ==
    With(SkipBlank(chunks), LAMBDA rest :
      IF rest # <<>>
      THEN [g EXCEPT !.pc = "token", !.chunks = Tail(rest),
                     !.out = Append(g.out, _sse("token", Head(rest)))]
      ELSE [g EXCEPT !.pc = "closing", !.at = 1, !.chunks = <<>>,
                     !.out = Append(g.out, ClosingFrames[1])])

----------------------------------------------------------------------------
(* Request handlers on concurrent threads: the sync routes of app.py run in *)
(* a thread pool and share _CONVERSATIONS without a lock                    *)

\* the threads that serve requests: one for each request after the first
ThreadIds == 1..(MaxOps - 1)

\* a reply of start_research's model call that names one conflict
OneConflictData ==
    JDict(<< <<K("overview"), S("Acme leads orbital launch.")>>,
             <<K("conflicts"),
               JList(<<JDict(<< <<K("topic"), S("revenue")>>,
                                <<K("details"), S("Two revenue figures")>> >>)>>)>> >>)

\* what call_llm returned to the start_research that made the conversation:
\* two conflicts, one conflict, none
ThreadReplies ==
    { json_dumps(FullData), json_dumps(OneConflictData),
      <<Fence, "json", "\n">> \o json_dumps(SparseData) \o <<"\n", Fence>> }

ThreadMessages ==
    { <<"Deep-Dive", " ", "on", " ", "revenue">>,
      <<" ", "SHOW", " ", "KPI", "\n">>,
      <<"swot", " ", "radar">>,
      <<"edit", " ", "a", " ", "section">>,
      <<"What", " ", "next", "?">> }

ThreadTitles == { TitleCompanyProfile, TitleSwot, <<"Overview">> }

\* a thread's frame: where it stands in its handler (pc), the request it
\* serves, the locals the handler has bound (the branch taken, the conflict
\* popped, what web_search and call_llm returned, the turn to append), the
\* exception that ended it, and what it found on entry: the length of the
\* transcript and the conflict queue
Thread(pc, op, cid, message, section_title, new_content, branch, conflict, new_web_data, llm_reply, turn, err, seen, queue) ==
    [pc |-> pc, op |-> op, cid |-> cid, message |-> message,
     section_title |-> section_title, new_content |-> new_content,
     branch |-> branch, conflict |-> conflict, new_web_data |-> new_web_data,
     llm_reply |-> llm_reply, turn |-> turn, err |-> err, seen |-> seen,
     queue |-> queue]

IdleThread ==
    Thread("idle", "", "", <<>>, <<>>, <<>>, "", None, None, <<>>,
           Turn(<<>>, <<>>), "", 0, None)

NoThreads == [t \in ThreadIds |-> IdleThread]

\* a list.append that overwrites the last item of a list that has one
list_append_Overwrite(list, item) ==
    IF list = <<>> THEN <<item>> ELSE [list EXCEPT ![Len(list)] = item]

\* list.append(item): one call into the list object, which no other thread's
\* call on the same list interleaves with
list_append(list, item) == Append(list, item)

\* the store whose conflict queue has the popped conflict back at its head:
\* what lines 596-616 of chat_with_agent compute is what the whole handler
\* computes on it
Unpopped(store, thread) ==
    [store EXCEPT ![thread.cid].conflicts_to_resolve =
        JList(<<thread.conflict>> \o store[thread.cid].conflicts_to_resolve[2])]

----------------------------------------------------------------------------
(* The service as a state machine: one action per request handler *)

VARIABLES
    _CONVERSATIONS,  \* the in-memory store: identifier -> conversation state
    _search_cache,   \* rag_service: query (by company name) -> snippets found
    SERPER_API_KEY,  \* rag_service: whether the web-search key is configured
    issued,          \* the identifiers start_research has returned to clients
    last,            \* the request served last and what it got back
    ops,             \* the number of requests served
    generator,       \* the generator the streaming endpoint made last
    threads          \* the requests in flight when handlers run concurrently

vars == <<ops, _CONVERSATIONS, _search_cache, SERPER_API_KEY, issued, last, generator,
          threads>>

\* the record of a served request
Served(op, cid, arg, err, reply, ok, branch, prompt, llm_calls, web_calls) ==
    [op |-> op, cid |-> cid, arg |-> arg, err |-> err, reply |-> reply, ok |-> ok,
     branch |-> branch, prompt |-> prompt, llm_calls |-> llm_calls,
     web_calls |-> web_calls]

\* the identifiers a request may name: those a client was given, and one that
\* was never handed out
RequestIds == issued \cup {UnknownId}

\* search_context(query): the cached answer when the query was made before
search_context(company_name) ==
    IF company_name \in DOMAIN _search_cache
    THEN {_search_cache[company_name]}
    ELSE RagResults

Init ==
    /\ _CONVERSATIONS = <<>>
    /\ _search_cache = <<>>
    /\ SERPER_API_KEY \in BOOLEAN
    /\ issued = {}
    /\ last = Served("none", "", <<>>, "", <<>>, FALSE, "", <<>>, 0, 0)
    /\ ops = 0
    /\ generator = NoGenerator
    /\ threads = NoThreads

StartResearch ==
    /\ ops < MaxOps
    /\ Cardinality(DOMAIN _CONVERSATIONS) < Len(ConversationIds)
    /\ \E req \in Requests :
       \E rag_ctx \in search_context(req.company_name),
          web_text \in web_search(SERPER_API_KEY), raw \in Replies :
          LET cid == uuid4(_CONVERSATIONS) IN
          \E r \in {start_research(_CONVERSATIONS, req, cid, rag_ctx, web_text, raw)} :
              /\ _CONVERSATIONS' = r.store
              /\ _search_cache' =
                    [q \in DOMAIN _search_cache \cup {req.company_name} |->
                        IF q = req.company_name THEN rag_ctx ELSE _search_cache[q]]
              /\ last' = Served("start", cid,
                                [req |-> req, rag_ctx |-> rag_ctx,
                                 web_text |-> web_text, raw |-> raw],
                                r.err, r.plan, r.err = "", "", <<>>, 1, 1)
              /\ issued' = IF r.err = "" THEN issued \cup {cid} ELSE issued
    /\ ops' = ops + 1
    /\ UNCHANGED <<SERPER_API_KEY, generator, threads>>

Chat ==
    /\ ops < MaxOps
    /\ \E cid \in RequestIds, message \in Messages :
          LET branch == IF cid \in DOMAIN _CONVERSATIONS
                        THEN Route(_CONVERSATIONS[cid], message)
                        ELSE "invalid"
          IN  \E new_web_data \in
                    (IF branch = "conflict" THEN web_search(SERPER_API_KEY) ELSE {None}),
                 llm_reply \in
                    (IF branch \in {"conflict", "default"} THEN ChatReplies ELSE {<<>>}) :
                 \E r \in {chat_with_agent(_CONVERSATIONS, cid, message,
                                            new_web_data, llm_reply)} :
                     /\ _CONVERSATIONS' = r.store
                     /\ last' = Served("chat", cid, [message |-> message],
                                       r.err, r.reply, r.err = "", r.branch, r.prompt,
                                       r.llm_calls, r.web_calls)
    /\ ops' = ops + 1
    /\ UNCHANGED <<_search_cache, SERPER_API_KEY, issued, generator, threads>>

EditSection ==
    /\ ops < MaxOps
    /\ \E cid \in RequestIds, section_title \in EditTitles,
          new_content \in EditContents :
          \E r \in {update_account_plan_section(_CONVERSATIONS, cid,
                                                section_title, new_content)} :
              /\ _CONVERSATIONS' = r.store
              /\ last' = Served("edit", cid,
                                [section_title |-> section_title,
                                 new_content |-> new_content],
                                "", <<>>, r.ok, "", <<>>, 0, 0)
    /\ ops' = ops + 1
    /\ UNCHANGED <<_search_cache, SERPER_API_KEY, issued, generator, threads>>

Feedback ==
    /\ ops < MaxOps
    /\ \E cid \in RequestIds :
       \E llm_reply \in (IF cid \in DOMAIN _CONVERSATIONS THEN ChatReplies ELSE {<<>>}) :
          \E r \in {generate_feedback(_CONVERSATIONS, cid, llm_reply)} :
              /\ _CONVERSATIONS' = r.store
              /\ last' = Served("feedback", cid, <<>>, r.err, r.reply, TRUE,
                                r.branch, r.prompt, r.llm_calls, r.web_calls)
    /\ ops' = ops + 1
    /\ UNCHANGED <<_search_cache, SERPER_API_KEY, issued, generator, threads>>

GetState ==
    /\ ops < MaxOps
    /\ \E cid \in RequestIds :
          last' = Served("get", cid, <<>>, "",
                         get_conversation_state(_CONVERSATIONS, cid),
                         cid \in DOMAIN _CONVERSATIONS, "", <<>>, 0, 0)
    /\ ops' = ops + 1
    /\ UNCHANGED <<_CONVERSATIONS, _search_cache, SERPER_API_KEY, issued, generator, threads>>

Next == StartResearch \/ Chat \/ EditSection \/ Feedback \/ GetState

Spec == Init /\ [][Next]_vars

----------------------------------------------------------------------------
(* The streaming endpoint: one action per next(generator) *)

\* generator = stream_research(req) of the streaming endpoint: the call makes
\* the generator and runs nothing of its body
StreamResearch ==
    /\ ops < MaxOps
    /\ \E req \in Requests :
          generator' = [NoGenerator EXCEPT !.pc = "created", !.req = req]
    /\ ops' = ops + 1
    /\ UNCHANGED <<_CONVERSATIONS, _search_cache, SERPER_API_KEY, issued, last, threads>>

\* the first next(generator): build_research_prompt, then the first frame
StreamBegin ==
    /\ generator.pc = "created"
    /\ \E rag_ctx \in search_context(generator.req.company_name),
          web_text \in web_search(SERPER_API_KEY) :
          /\ generator' = [generator EXCEPT
                              !.pc = "status", !.at = 1,
                              !.rag_ctx = rag_ctx, !.web_text = web_text,
                              !.out = <<StatusFrames(rag_ctx, web_text)[1]>>]
          /\ _search_cache' =
                [q \in DOMAIN _search_cache \cup {generator.req.company_name} |->
                    IF q = generator.req.company_name THEN rag_ctx
                    ELSE _search_cache[q]]
    /\ UNCHANGED <<_CONVERSATIONS, SERPER_API_KEY, issued, last, ops, threads>>

\* next(generator) up to one of the later status frames before the model call
StreamStatus ==
    /\ generator.pc = "status"
    /\ generator.at < Len(StatusFrames(generator.rag_ctx, generator.web_text))
    /\ generator' =
          [generator EXCEPT
              !.at = @ + 1,
              !.out = Append(@, StatusFrames(generator.rag_ctx,
                                             generator.web_text)[generator.at + 1])]
    /\ UNCHANGED <<_CONVERSATIONS, _search_cache, SERPER_API_KEY, issued, last, ops, threads>>

\* next(generator) from the last status frame: stream_llm sends the request,
\* and the loop runs to its first yield
StreamSynthesis ==
    /\ generator.pc = "status"
    /\ generator.at = Len(StatusFrames(generator.rag_ctx, generator.web_text))
    /\ \E groq \in LlmStreams :
          generator' = NextToken([generator EXCEPT !.groq = groq], stream_llm(groq))
    /\ UNCHANGED <<_CONVERSATIONS, _search_cache, SERPER_API_KEY, issued, last, ops, threads>>

\* next(generator) from a token frame
StreamToken ==
    /\ generator.pc = "token"
    /\ generator' = NextToken(generator, generator.chunks)
    /\ UNCHANGED <<_CONVERSATIONS, _search_cache, SERPER_API_KEY, issued, last, ops, threads>>

\* next(generator) from a closing frame that is not the last
StreamClosing ==
    /\ generator.pc = "closing"
    /\ generator.at < Len(ClosingFrames)
    /\ generator' = [generator EXCEPT
                        !.at = @ + 1,
                        !.out = Append(@, ClosingFrames[generator.at + 1])]
    /\ UNCHANGED <<_CONVERSATIONS, _search_cache, SERPER_API_KEY, issued, last, ops, threads>>

\* next(generator) from the last frame: the body ends, StopIteration
StreamStop ==
    /\ generator.pc = "closing"
    /\ generator.at = Len(ClosingFrames)
    /\ generator' = [generator EXCEPT !.pc = "finished"]
    /\ UNCHANGED <<_CONVERSATIONS, _search_cache, SERPER_API_KEY, issued, last, ops, threads>>

StreamNext ==
    \/ StreamResearch \/ StreamBegin \/ StreamStatus \/ StreamSynthesis
    \/ StreamToken \/ StreamClosing \/ StreamStop

\* the streaming endpoint alone: it shares no conversation with the handlers
StreamSpec == Init /\ [][StreamNext]_vars

----------------------------------------------------------------------------
(* Section edits alone, on a conversation start_research has created *)

\* the titles of the display sections a plan may have, and one it never has
SectionTitles ==
    { TitleCompanyProfile, TitleMarketAnalysis, TitleFinancialHighlights,
      TitleProductPortfolio, TitleTechnologyStack, TitleCompetitors, TitleSwot,
      TitleOpportunities, TitleRisks, TitlePlan306090, TitleFullOutput,
      <<"Overview">> }

\* the service after one start_research that returned
EditInit ==
    /\ SERPER_API_KEY \in BOOLEAN
    /\ \E req \in Requests, rag_ctx \in RagResults,
          web_text \in web_search(SERPER_API_KEY), raw \in Replies :
          \E r \in {start_research(<<>>, req, uuid4(<<>>), rag_ctx, web_text, raw)} :
              /\ r.err = ""
              /\ _CONVERSATIONS = r.store
              /\ _search_cache = [q \in {req.company_name} |-> rag_ctx]
              /\ issued = {uuid4(<<>>)}
              /\ last = Served("start", uuid4(<<>>),
                               [req |-> req, rag_ctx |-> rag_ctx,
                                web_text |-> web_text, raw |-> raw],
                               r.err, r.plan, TRUE, "", <<>>, 1, 1)
    /\ ops = 1
    /\ generator = NoGenerator
    /\ threads = NoThreads

\* update_account_plan_section for any title
EditAnySection ==
    /\ ops < MaxOps
    /\ \E cid \in RequestIds, section_title \in SectionTitles,
          new_content \in EditContents :
          \E r \in {update_account_plan_section(_CONVERSATIONS, cid,
                                                section_title, new_content)} :
              /\ _CONVERSATIONS' = r.store
              /\ last' = Served("edit", cid,
                                [section_title |-> section_title,
                                 new_content |-> new_content],
                                "", <<>>, r.ok, "", <<>>, 0, 0)
    /\ ops' = ops + 1
    /\ UNCHANGED <<_search_cache, SERPER_API_KEY, issued, generator, threads>>

EditSpec == EditInit /\ [][EditAnySection]_vars

----------------------------------------------------------------------------
(* Concurrent requests on a conversation start_research has created: one  *)
(* action per stretch of a handler between two accesses to shared objects *)

\* the service after one start_research that returned, no request in flight
ThreadInit ==
    /\ SERPER_API_KEY \in BOOLEAN
    /\ \E req \in Requests, rag_ctx \in RagResults,
          web_text \in web_search(SERPER_API_KEY), raw \in ThreadReplies :
          \E r \in {start_research(<<>>, req, uuid4(<<>>), rag_ctx, web_text, raw)} :
              /\ r.err = ""
              /\ _CONVERSATIONS = r.store
              /\ _search_cache = [q \in {req.company_name} |-> rag_ctx]
              /\ issued = {uuid4(<<>>)}
              /\ last = Served("start", uuid4(<<>>),
                               [req |-> req, rag_ctx |-> rag_ctx,
                                web_text |-> web_text, raw |-> raw],
                               r.err, r.plan, TRUE, "", <<>>, 1, 1)
    /\ ops = 1
    /\ generator = NoGenerator
    /\ threads = NoThreads

\* chat_with_agent, lines 529-590: the lookup, the locals, and the chart and
\* KPI branches up to their history.append
ThreadChat ==
    /\ ops < MaxOps
    /\ \E t \in ThreadIds, cid \in RequestIds, message \in ThreadMessages :
          /\ threads[t].pc = "idle"
          /\ LET request == [IdleThread EXCEPT !.op = "chat", !.cid = cid,
                                               !.message = message]
             IN  IF cid \notin DOMAIN _CONVERSATIONS
                 THEN threads' = [threads EXCEPT ![t] =
                         [request EXCEPT !.pc = "done", !.branch = "invalid"]]
                 ELSE
                 LET state == _CONVERSATIONS[cid]
                     branch == Route(state, message)
                     entered == [request EXCEPT !.seen = Len(state.history),
                                                !.queue = state.conflicts_to_resolve]
                 IN  IF branch \in {"chart", "kpi"}
                     THEN \E r \in {chat_with_agent(_CONVERSATIONS, cid, message,
                                                    None, <<>>)} :
                             threads' = [threads EXCEPT ![t] =
                                 IF r.err # ""
                                 THEN [entered EXCEPT !.pc = "failed",
                                                      !.branch = branch,
                                                      !.err = r.err]
                                 ELSE [entered EXCEPT !.pc = "append",
                                                      !.branch = branch,
                                                      !.turn = Turn(strip(message),
                                                                    r.reply)]]
                     ELSE threads' = [threads EXCEPT ![t] =
                                         [entered EXCEPT !.pc = "test"]]
    /\ ops' = ops + 1
    /\ UNCHANGED <<_CONVERSATIONS, _search_cache, SERPER_API_KEY, issued, last,
                   generator>>

\* chat_with_agent, lines 593 and 622: the test of the conflict queue, and
\* the edit-help branch up to its history.append
ThreadTest ==
    /\ \E t \in ThreadIds :
          /\ threads[t].pc = "test"
          /\ LET thread == threads[t]
                 branch == Route(_CONVERSATIONS[thread.cid], thread.message)
             IN  threads' = [threads EXCEPT ![t] =
                     CASE branch = "conflict" ->
                            [thread EXCEPT !.pc = "pop", !.branch = branch]
                       [] branch = "edit_help" ->
                            [thread EXCEPT !.pc = "append", !.branch = branch,
                                           !.turn = Turn(strip(thread.message),
                                                         EditHelpReply)]
                       [] OTHER ->
                            [thread EXCEPT !.pc = "prompt", !.branch = "default"]]
    /\ UNCHANGED <<ops, _CONVERSATIONS, _search_cache, SERPER_API_KEY, issued, last,
                   generator>>

\* chat_with_agent, line 595: conflicts.pop(0) on the queue as it is now
ThreadPop ==
    /\ \E t \in ThreadIds :
          /\ threads[t].pc = "pop"
          /\ LET thread == threads[t]
                 conflicts == _CONVERSATIONS[thread.cid].conflicts_to_resolve
             IN  IF ~IsList(conflicts)
                 THEN /\ threads' = [threads EXCEPT ![t] =
                            [thread EXCEPT !.pc = "failed",
                                           !.err = IF IsDict(conflicts)
                                                   THEN "KeyError"
                                                   ELSE "AttributeError"]]
                      /\ UNCHANGED _CONVERSATIONS
                 ELSE IF conflicts[2] = <<>>
                 THEN /\ threads' = [threads EXCEPT ![t] =
                            [thread EXCEPT !.pc = "failed", !.err = "IndexError"]]
                      /\ UNCHANGED _CONVERSATIONS
                 ELSE /\ threads' = [threads EXCEPT ![t] =
                            [thread EXCEPT !.pc = "resolve",
                                           !.conflict = Head(conflicts[2])]]
                      /\ _CONVERSATIONS' =
                            [_CONVERSATIONS EXCEPT ![thread.cid].conflicts_to_resolve =
                                JList(Tail(conflicts[2]))]
    /\ UNCHANGED <<ops, _search_cache, SERPER_API_KEY, issued, last, generator>>

\* chat_with_agent, lines 596-611: the topic, web_search, call_llm and the
\* parse of its reply
ThreadResolve ==
    /\ \E t \in ThreadIds :
          /\ threads[t].pc = "resolve"
          /\ \E new_web_data \in web_search(SERPER_API_KEY), llm_reply \in ChatReplies :
                LET thread == threads[t] IN
                \E r \in {chat_with_agent(Unpopped(_CONVERSATIONS, thread), thread.cid,
                                          thread.message, new_web_data, llm_reply)} :
                    threads' = [threads EXCEPT ![t] =
                        IF r.err # ""
                        THEN [thread EXCEPT !.pc = "failed", !.err = r.err]
                        ELSE [thread EXCEPT !.pc = "finish",
                                            !.new_web_data = new_web_data,
                                            !.llm_reply = llm_reply]]
    /\ UNCHANGED <<ops, _CONVERSATIONS, _search_cache, SERPER_API_KEY, issued, last,
                   generator>>

\* chat_with_agent, lines 612-616: the queue stored back (the same list) and
\* the reply, with len(conflicts) as it is now
ThreadFinish ==
    /\ \E t \in ThreadIds :
          /\ threads[t].pc = "finish"
          /\ LET thread == threads[t] IN
             \E r \in {chat_with_agent(Unpopped(_CONVERSATIONS, thread), thread.cid,
                                       thread.message, thread.new_web_data,
                                       thread.llm_reply)} :
                 threads' = [threads EXCEPT ![t] =
                     [thread EXCEPT !.pc = "append",
                                    !.turn = Turn(strip(thread.message), r.reply)]]
    /\ UNCHANGED <<ops, _CONVERSATIONS, _search_cache, SERPER_API_KEY, issued, last,
                   generator>>

\* chat_with_agent, lines 632-661: the prompt from the transcript and the
\* plan as they are now, and call_llm
ThreadPrompt ==
    /\ \E t \in ThreadIds :
          /\ threads[t].pc = "prompt"
          /\ \E llm_reply \in ChatReplies :
                LET thread == threads[t] IN
                \E r \in {chat_with_agent(_CONVERSATIONS, thread.cid, thread.message,
                                          None, llm_reply)} :
                    threads' = [threads EXCEPT ![t] =
                        [thread EXCEPT !.pc = "append", !.llm_reply = llm_reply,
                                       !.turn = Turn(strip(thread.message), r.reply)]]
    /\ UNCHANGED <<ops, _CONVERSATIONS, _search_cache, SERPER_API_KEY, issued, last,
                   generator>>

\* update_account_plan_section, lines 466-482: the lookup, the search for the
\* section and the write of its content
ThreadEdit ==
    /\ ops < MaxOps
    /\ \E t \in ThreadIds, cid \in RequestIds, section_title \in ThreadTitles,
          new_content \in EditContents :
          /\ threads[t].pc = "idle"
          /\ LET request == [IdleThread EXCEPT !.op = "edit", !.cid = cid,
                                               !.section_title = section_title,
                                               !.new_content = new_content]
             IN  \E r \in {update_account_plan_section(_CONVERSATIONS, cid,
                                                       section_title, new_content)} :
                 IF ~r.ok
                 THEN /\ threads' = [threads EXCEPT ![t] =
                            [request EXCEPT !.pc = "done", !.branch = "not_found"]]
                      /\ UNCHANGED _CONVERSATIONS
                 ELSE /\ threads' = [threads EXCEPT ![t] =
                            [request EXCEPT
                                !.pc = "setattr", !.branch = "edit",
                                !.seen = Len(_CONVERSATIONS[cid].history),
                                !.queue = _CONVERSATIONS[cid].conflicts_to_resolve,
                                !.turn = r.store[cid].history[Len(r.store[cid].history)]]]
                      /\ _CONVERSATIONS' =
                            [_CONVERSATIONS EXCEPT ![cid].plan.sections =
                                r.store[cid].plan.sections]
    /\ ops' = ops + 1
    /\ UNCHANGED <<_search_cache, SERPER_API_KEY, issued, last, generator>>

\* update_account_plan_section, lines 484-492: the attribute named after the
\* title, set on the plan as it is now
ThreadSetAttr ==
    /\ \E t \in ThreadIds :
          /\ threads[t].pc = "setattr"
          /\ LET thread == threads[t]
                 plan == _CONVERSATIONS[thread.cid].plan
             IN  \E r \in {update_account_plan_section(_CONVERSATIONS, thread.cid,
                                                       thread.section_title,
                                                       thread.new_content)} :
                    /\ _CONVERSATIONS' =
                          [_CONVERSATIONS EXCEPT ![thread.cid].plan =
                              [attr \in DOMAIN plan |->
                                  IF attr = "sections" THEN plan.sections
                                  ELSE r.store[thread.cid].plan[attr]]]
                    /\ threads' = [threads EXCEPT ![t] = [thread EXCEPT !.pc = "append"]]
    /\ UNCHANGED <<ops, _search_cache, SERPER_API_KEY, issued, last, generator>>

\* history.append(turn) and the return: lines 570, 589, 618, 627 and 662 of
\* chat_with_agent, lines 494-501 of update_account_plan_section
ThreadAppend ==
    /\ \E t \in ThreadIds :
          /\ threads[t].pc = "append"
          /\ _CONVERSATIONS' =
                [_CONVERSATIONS EXCEPT ![threads[t].cid].history =
                    list_append(@, threads[t].turn)]
          /\ threads' = [threads EXCEPT ![t].pc = "done"]
    /\ UNCHANGED <<ops, _search_cache, SERPER_API_KEY, issued, last, generator>>

ThreadNext ==
    \/ ThreadChat
    \/ ThreadTest
    \/ ThreadPop
    \/ ThreadResolve
    \/ ThreadFinish
    \/ ThreadPrompt
    \/ ThreadEdit
    \/ ThreadSetAttr
    \/ ThreadAppend

ThreadSpec == ThreadInit /\ [][ThreadNext]_vars

----------------------------------------------------------------------------
(* Properties of the chat router *)

\* the stored transcript and conflict queue of a conversation
HistoryOf(store, cid) == store[cid].history
QueueOf(store, cid) == store[cid].conflicts_to_resolve[2]

\* the last request was a chat message on a conversation of the store
ChatServed == last.op = "chat" /\ last.cid \in DOMAIN _CONVERSATIONS

\* the message names both "competitor pie" and "show kpi chart"
MentionsBothRules(message) ==
    LET m == lower(strip(message))
    IN  /\ Contains(m, <<"competitor", " ", "pie">>)
        /\ Contains(m, <<"show", " ", "kpi", " ", "chart">>)

CompetitorChartKey == <<"competitor", "_", "chart", "_", "data">>

\* the plan stores competitor chart data that is not empty
StoresCompetitorChart(plan) ==
    IsDict(plan.sources) /\ Truthy(DictGet(plan.sources, CompetitorChartKey, None))

\* the reply decodes to a chart_request of the given type that carries data
IsChartRequest(reply, chart_type, data) ==
    LET decoded == json_loads(reply)
    IN  /\ decoded.ok
        /\ IsDict(decoded.val)
        /\ DictGet(decoded.val, <<"reply", "_", "type">>, None)
              = JStr(<<"chart", "_", "request">>)
        /\ DictGet(decoded.val, <<"chart", "_", "type">>, None) = JStr(<<chart_type>>)
        /\ DictGet(decoded.val, <<"data">>, None) = data

C2_AsStated ==
    [][(last'.op = "chat" /\ last'.branch = "conflict")
       => /\ Len(QueueOf(_CONVERSATIONS', last'.cid))
               = Len(QueueOf(_CONVERSATIONS, last'.cid)) - 1
          /\ Len(HistoryOf(_CONVERSATIONS', last'.cid))
               = Len(HistoryOf(_CONVERSATIONS, last'.cid)) + 1]_vars

\* C3 as stated: every chat message on a known conversation returns a reply
\* and appends exactly one turn, made of the trimmed message and that reply.
C3_AsStated ==
    [][(last'.op = "chat" /\ last'.cid \in DOMAIN _CONVERSATIONS)
       => /\ last'.err = ""
          /\ HistoryOf(_CONVERSATIONS', last'.cid)
               = Append(HistoryOf(_CONVERSATIONS, last'.cid),
                        Turn(strip(last'.arg.message), last'.reply))]_vars

\* C4: for an identifier that is not in the store, chat_with_agent and
\* generate_feedback return their fixed replies and get_conversation_state
\* returns None; none of them raises, calls the model or changes the store.
C4_UnknownIdIsInert ==
    [][(last'.op \in {"chat", "feedback", "get"}
        /\ last'.cid \notin DOMAIN _CONVERSATIONS)
       => /\ last'.err = ""
          /\ last'.llm_calls = 0
          /\ _CONVERSATIONS' = _CONVERSATIONS
          /\ last'.reply = CASE last'.op = "chat" -> InvalidConversationReply
                              [] last'.op = "feedback" -> InvalidFeedbackReply
                              [] OTHER -> None]_vars

\* feedback was asked for an unknown identifier while the store held a
\* conversation
C4_Witness ==
    /\ last.op = "feedback"
    /\ last.cid \notin DOMAIN _CONVERSATIONS
    /\ DOMAIN _CONVERSATIONS # {}
    /\ last.reply = InvalidFeedbackReply

----------------------------------------------------------------------------
(* Properties of section edits *)

SectionsOf(store, cid) == store[cid].plan.sections

\* a display section of the conversation has exactly this title
HasSection(store, cid, section_title) ==
    /\ cid \in DOMAIN store
    /\ \E i \in 1..Len(SectionsOf(store, cid)) :
          SectionsOf(store, cid)[i].title = section_title

\* C5: an edit of a known conversation whose title is that of a display
\* section returns success, replaces that section's content, leaves the
\* title and content of every other section as they were, and appends exactly
\* one audit turn to the transcript.
C5_EditReplacesOneSection ==
    [][(last'.op = "edit"
        /\ HasSection(_CONVERSATIONS, last'.cid, last'.arg.section_title))
       => LET cid == last'.cid
              title == last'.arg.section_title
              before == SectionsOf(_CONVERSATIONS, cid)
              after == SectionsOf(_CONVERSATIONS', cid)
              history == HistoryOf(_CONVERSATIONS, cid)
              history_after == HistoryOf(_CONVERSATIONS', cid)
          IN  /\ last'.ok
              /\ Len(after) = Len(before)
              /\ \A i \in 1..Len(before) :
                    /\ after[i].title = before[i].title
                    /\ after[i].content =
                          IF before[i].title = title THEN last'.arg.new_content
                          ELSE before[i].content
              /\ Len(history_after) = Len(history) + 1
              /\ SubSeq(history_after, 1, Len(history)) = history
              /\ history_after[Len(history_after)].user
                    = <<"System Edit: Update '">> \o title \o <<"'">>]_vars

\* a section of a ten-section plan was edited: its content is the new one
\* and the newest turn is the audit turn
C5_Witness ==
    /\ last.op = "edit"
    /\ last.ok
    /\ Len(SectionsOf(_CONVERSATIONS, last.cid)) = 10
    /\ \E i \in 1..10 :
          /\ SectionsOf(_CONVERSATIONS, last.cid)[i].title = last.arg.section_title
          /\ SectionsOf(_CONVERSATIONS, last.cid)[i].content = last.arg.new_content
    /\ LET history == HistoryOf(_CONVERSATIONS, last.cid)
       IN  history[Len(history)].user
             = <<"System Edit: Update '">> \o last.arg.section_title \o <<"'">>

\* C6: an edit that names an unknown conversation, or a title that no display
\* section has, returns failure without raising and leaves the whole store as
\* it was.
C6_FailedEditChangesNothing ==
    [][(last'.op = "edit"
        /\ ~HasSection(_CONVERSATIONS, last'.cid, last'.arg.section_title))
       => /\ ~last'.ok
          /\ last'.err = ""
          /\ _CONVERSATIONS' = _CONVERSATIONS]_vars

\* an edit of a known conversation failed although the plan has an attribute
\* of the normalized title: no display section carries that title
C6_Witness ==
    /\ last.op = "edit"
    /\ last.cid \in DOMAIN _CONVERSATIONS
    /\ ~last.ok
    /\ AttrName(last.arg.section_title) \in AccountPlanFields
    /\ ~HasSection(_CONVERSATIONS, last.cid, last.arg.section_title)

----------------------------------------------------------------------------
(* Properties of the free-form chat prompt *)

\* the transcript as "User:" and "Assistant:" lines, oldest turn first
RECURSIVE TranscriptLines(_)
TranscriptLines(history) ==
    IF history = <<>> THEN <<>>
    ELSE LET n == Len(history)
             lines == <<"User: ">> \o history[n].user
                          \o <<"\n", "Assistant: ">> \o history[n].assistant
         IN  IF n = 1 THEN lines
             ELSE TranscriptLines(SubSeq(history, 1, n - 1)) \o <<"\n">> \o lines

\* C7: every free-form chat call appends exactly one turn, and when two of
\* them follow each other on a conversation, the prompt of the second holds
\* the transcript in order, ending with the turn of the first as a User line
\* followed by an Assistant line.
C7_SecondPromptHoldsFirstTurn ==
    [][(last'.op = "chat" /\ last'.branch = "default")
       => LET cid == last'.cid
              history == HistoryOf(_CONVERSATIONS, cid)
          IN  /\ HistoryOf(_CONVERSATIONS', cid)
                    = Append(history, Turn(strip(last'.arg.message), last'.reply))
              /\ (last.op = "chat" /\ last.branch = "default" /\ last.cid = cid)
                    => /\ history[Len(history)]
                             = Turn(strip(last.arg.message), last.reply)
                       /\ Contains(last'.prompt, TranscriptLines(history))]_vars

\* the second of two free-form calls was served: the transcript ends with
\* the two turns and the prompt shows the first after the seeded turns
C7_Witness ==
    /\ ChatServed
    /\ last.branch = "default"
    /\ LET history == HistoryOf(_CONVERSATIONS, last.cid)
           n == Len(history)
       IN  /\ n > 2
           /\ history[n].user = strip(last.arg.message)
           /\ history[n - 1].user = <<"What", " ", "next", "?">>
           /\ history[n - 1].assistant \in ChatReplies
           /\ history[n - 2].user = <<"System Initiated Research">>
           /\ Contains(last.prompt,
                       <<"\n", "User: ">> \o history[n - 1].user
                           \o <<"\n", "Assistant: ">> \o history[n - 1].assistant)

----------------------------------------------------------------------------
(* Properties of the plan synthesizer *)

\* the last request was start_research and returned
StartReturned == last.op = "start" /\ last.err = ""

\* C8: when the reply parses to an empty mapping, start_research returns a
\* plan of confidence 0.0 without conflicts, with the one display section
\* "Full Research Output" that holds the whole raw reply, and with an overview
\* that is not empty, starts with the company name and holds the raw text.
C8_EmptyMappingGivesFallback ==
    (last.op = "start" /\ _parse_llm_json(last.arg.raw) = JDict(<<>>))
    => /\ last.err = ""
       /\ last.reply = _CONVERSATIONS[last.cid].plan
       /\ last.reply.metadata.confidence_score = JNum(0)
       /\ ~last.reply.metadata.conflicts_detected
       /\ Len(last.reply.sections) = 1
       /\ last.reply.sections[1].title = <<"Full", " ", "Research", " ", "Output">>
       /\ last.reply.sections[1].content = last.arg.raw
       /\ last.reply.overview # <<>>
       /\ startswith(last.reply.overview, last.arg.req.company_name)
       /\ Contains(last.reply.overview, Take(last.arg.raw, RawPrefixLen))

\* the model answered "not json" and the plan came back with that one section
C8_Witness ==
    /\ StartReturned
    /\ last.arg.raw = NotJson
    /\ Len(last.reply.sections) = 1
    /\ last.reply.sections[1].content = NotJson

\* the display sections and the input field each of them shows
SectionFields ==
    << <<TitleCompanyProfile, <<"company", "_", "profile">>>>,
       <<TitleMarketAnalysis, <<"market", "_", "analysis">>>>,
       <<TitleFinancialHighlights, <<"financial", "_", "highlights">>>>,
       <<TitleProductPortfolio, <<"product", "_", "portfolio">>>>,
       <<TitleTechnologyStack, <<"technology", "_", "stack">>>>,
       <<TitleCompetitors, <<"competitors">>>>,
       <<TitleSwot, <<"swot">>>>,
       <<TitleOpportunities, <<"opportunities">>>>,
       <<TitleRisks, <<"risks">>>>,
       <<TitlePlan306090, <<"account", "_", "plan", "_", "30", "_", "60", "_", "90">>>> >>

\* the reply is a JSON object that has every field: the narrative ones and
\* the structured ones of the prompt's schema
HasAllFields(data) ==
    /\ IsDict(data)
    /\ \A i \in 1..Len(SectionFields) : HasKey(data, SectionFields[i][2])
    /\ \A key \in { <<"overview">>, <<"opportunities", "_", "points">>,
                     <<"plan", "_", "table">>, <<"swot", "_", "radar", "_", "scores">>,
                     <<"competitor", "_", "chart", "_", "data">>,
                     <<"kpi", "_", "summary">>, <<"conflicts">>,
                     <<"confidence", "_", "score">> } : HasKey(data, key)

\* C9 (as amended): a reply with all fields gives the ten display sections in
\* their order; eight of them hold their input field verbatim, Opportunities
\* holds the entries of opportunities_points joined by blank lines, and
\* 30-60-90 Day Plan holds the fixed placeholder sentence.
C9_SectionsFromFields ==
    StartReturned =>
    \A data \in {_parse_llm_json(last.arg.raw)} :
    HasAllFields(data)
    => LET sections == last.reply.sections
           points == DictGet(data, <<"opportunities", "_", "points">>, None)[2]
       IN  /\ Len(sections) = Len(SectionFields)
           /\ \A i \in 1..Len(SectionFields) :
                 /\ sections[i].title = SectionFields[i][1]
                 /\ sections[i].content =
                       CASE sections[i].title = TitleOpportunities ->
                              join(<<"\n", "\n">>,
                                   [k \in 1..Len(points) |-> points[k][2]])
                         [] sections[i].title = TitlePlan306090 ->
                              <<"Structured 30-60-90 Day Plan data is available below.">>
                         [] OTHER -> DictGet(data, SectionFields[i][2], None)[2]

\* a reply with all fields came back as a plan of ten sections whose
\* Opportunities section is not empty
C9_Witness ==
    /\ StartReturned
    /\ HasAllFields(_parse_llm_json(last.arg.raw))
    /\ Len(last.reply.sections) = 10
    /\ last.reply.sections[8].content # <<>>

\* C9 as stated: each of the ten sections holds its input field verbatim,
\* the narrative field of its name or, for Opportunities and 30-60-90 Day
\* Plan, the structured field of the schema.
C9_AsStated ==
    StartReturned =>
    \A data \in {_parse_llm_json(last.arg.raw)} :
    HasAllFields(data)
    => LET sections == last.reply.sections
       IN  /\ Len(sections) = Len(SectionFields)
           /\ \A i \in 1..Len(SectionFields) :
                 /\ sections[i].title = SectionFields[i][1]
                 /\ \/ JStr(sections[i].content)
                          = DictGet(data, SectionFields[i][2], None)
                    \/ /\ sections[i].title = TitleOpportunities
                       /\ JStr(sections[i].content)
                            = DictGet(data, <<"opportunities", "_", "points">>, None)
                    \/ /\ sections[i].title = TitlePlan306090
                       /\ JStr(sections[i].content)
                            = DictGet(data, <<"plan", "_", "table">>, None)

\* C10 as stated: whatever the reply, start_research returns an identifier
\* and the plan it stored, and the plan is the fallback one when the reply is
\* not a JSON object with content.
C10_AsStated ==
    last.op = "start"
    => /\ last.err = ""
       /\ last.cid \in issued
       /\ last.reply = _CONVERSATIONS[last.cid].plan
       /\ \A parsed \in {_parse_llm_json(last.arg.raw)} :
            (~IsDict(parsed) \/ parsed = JDict(<<>>))
            => last.reply.sections = <<CompanySection(TitleFullOutput, last.arg.raw)>>

----------------------------------------------------------------------------
(* Properties of the parser *)

\* the text holds neither brace
HasNoBrace(text) == ~Contains(text, <<"{">>) /\ ~Contains(text, <<"}">>)

\* C11 as stated: whatever the model replied to start_research,
\* _parse_llm_json gives a key-value mapping, and the empty mapping when the
\* reply holds no brace.
C11_AsStated ==
    last.op = "start"
    => \A parsed \in {_parse_llm_json(last.arg.raw)} :
          /\ IsDict(parsed)
          /\ HasNoBrace(last.arg.raw) => parsed = JDict(<<>>)

----------------------------------------------------------------------------
(* Properties of the conversation store *)

\* the turns _generate_pipeline_history seeds a transcript with: five of the
\* pipeline, then the agent's introduction
IsSeeded(history) ==
    /\ Len(history) = 6
    /\ \A i \in 1..5 : history[i].user = PipelineUser
    /\ history[6].user = <<"System Initiated Research">>
    /\ history[6].assistant # <<>>

\* C12 (amended): when start_research returns, its identifier was not in the
\* store before, the other conversations are as they were, and the new
\* conversation holds the returned plan, a transcript seeded with the six
\* pipeline turns and a queue of the conflicts the model's reply lists.
C12_FreshIdSeededConversation ==
    [][(last'.op = "start" /\ last'.err = "")
       => /\ last'.cid \notin DOMAIN _CONVERSATIONS
          /\ DOMAIN _CONVERSATIONS' = DOMAIN _CONVERSATIONS \cup {last'.cid}
          /\ \A c \in DOMAIN _CONVERSATIONS : _CONVERSATIONS'[c] = _CONVERSATIONS[c]
          /\ _CONVERSATIONS'[last'.cid].plan = last'.reply
          /\ IsSeeded(HistoryOf(_CONVERSATIONS', last'.cid))
          /\ \A parsed \in {_parse_llm_json(last'.arg.raw)} :
                _CONVERSATIONS'[last'.cid].conflicts_to_resolve
                    = DictGet(parsed, <<"conflicts">>, JList(<<>>))]_vars

\* a second conversation was created beside the first, with the two conflicts
\* of the reply queued
C12_Witness ==
    /\ StartReturned
    /\ last.cid = ConversationIds[2]
    /\ ConversationIds[1] \in DOMAIN _CONVERSATIONS
    /\ IsSeeded(HistoryOf(_CONVERSATIONS, last.cid))
    /\ Len(QueueOf(_CONVERSATIONS, last.cid)) = 2

\* C12 as stated: when start_research returns, its identifier was not in the
\* store before and the new conversation has an empty transcript and an
\* empty conflict queue.
C12_AsStated ==
    [][(last'.op = "start" /\ last'.err = "")
       => /\ last'.cid \notin DOMAIN _CONVERSATIONS
          /\ HistoryOf(_CONVERSATIONS', last'.cid) = <<>>
          /\ QueueOf(_CONVERSATIONS', last'.cid) = <<>>]_vars

----------------------------------------------------------------------------
(* Properties of the streaming orchestrator *)

\* the event name and the data of a frame "event: E\ndata: D\n\n"
FrameEvent(frame) == frame[2]
FrameData(frame) == SubSeq(frame, 5, Len(frame) - 2)

\* the generator was drained: its body ran to the end
Drained == generator.pc = "finished"

\* the frames the consumer has pulled from the generator
Frames == generator.out

\* the six frames before the model call are status frames: intent, RAG search
\* and its count of snippets, web search and its outcome, start of synthesis
PipelineFramesFirst(out) ==
    /\ Len(out) >= 6
    /\ \A i \in 1..6 : FrameEvent(out[i]) = "status"
    /\ FrameData(out[1]) = <<"Understanding intent and preparing research pipeline.">>
    /\ FrameData(out[2]) = <<"Searching internal RAG documents.">>
    /\ FrameData(out[3]) = <<"RAG search complete. ">>
                              \o str_int(Len(generator.rag_ctx))
                              \o <<" internal chunks found.">>
    /\ FrameData(out[4]) = <<"Running external web search.">>
    /\ FrameData(out[5]) \in
          { <<"Web search complete.">>,
            <<"Web search unavailable. Continuing with RAG and LLM synthesis.">> }
    /\ FrameData(out[6])
          = <<"Synthesizing account plan with LLM and checking for conflicts.">>

TokenData(out) ==
    LET tokens == SelectSeq(out, LAMBDA frame : FrameEvent(frame) = "token")
    IN  IF tokens = <<>> THEN <<>>
        ELSE [i \in 1..Len(tokens) |-> FrameData(tokens[i])]

\* the texts of the chunks of the Groq stream that satisfy Keep, in arrival
\* order and with every newline turned into a space; the one error text when
\* the request raised
ChunkTexts(groq, Keep(_)) ==
    IF ~groq.created THEN << <<"(llm_stream_error: ", groq.e, ")">> >>
    ELSE LET kept == SelectSeq(groq.stream, Keep)
         IN  IF kept = <<>> THEN <<>>
             ELSE [i \in 1..Len(kept) |->
                     [k \in 1..Len(kept[i].content[2]) |->
                         IF kept[i].content[2][k] = "\n" THEN " "
                         ELSE kept[i].content[2][k]]]

\* the chunk carries a text that is not empty
HasText(chunk) == chunk.delta /\ IsStr(chunk.content) /\ chunk.content[2] # <<>>

\* the chunk carries a text that has more than spaces and newlines
HasVisibleText(chunk) ==
    HasText(chunk) /\ \E k \in 1..Len(chunk.content[2]) : ~IsWs(chunk.content[2][k])

\* C14 (amended): a drained stream_research has exactly one token frame for
\* every chunk of the model's stream whose text is more than whitespace, in
\* arrival order, each carrying the chunk's text with its newlines replaced
\* by spaces; chunks of whitespace only get no frame.
C14_TokenPerVisibleChunk ==
    Drained => TokenData(Frames) = ChunkTexts(generator.groq, HasVisibleText)

\* a stream of six chunks was drained into two token frames, the second with
\* its newline replaced
C14_Witness ==
    /\ Drained
    /\ Len(generator.groq.stream) = 6
    /\ TokenData(Frames) = << <<"{">>, <<Quote, "overview", Quote, ":", " ", "1", "}">> >>

\* C14 as stated: a drained stream_research has exactly one token frame for
\* every non-empty chunk of the model's stream, in arrival order, each
\* carrying the chunk's text with its newlines replaced by spaces.
C14_AsStated ==
    Drained => TokenData(Frames) = ChunkTexts(generator.groq, HasText)

----------------------------------------------------------------------------
(* Properties of the feedback handler *)

\* C15 (amended): a feedback request on a known conversation asks the model
\* once, returns its answer as the summary and records nothing: the
\* transcript, like the rest of the store, is what it was.
C15_FeedbackRecordsNoTurn ==
    [][(last'.op = "feedback" /\ last'.cid \in DOMAIN _CONVERSATIONS)
       => /\ _CONVERSATIONS' = _CONVERSATIONS
          /\ HistoryOf(_CONVERSATIONS', last'.cid)
                = HistoryOf(_CONVERSATIONS, last'.cid)
          /\ last'.llm_calls = 1
          /\ last'.reply \in ChatReplies]_vars

\* feedback was given on a conversation whose transcript holds the six seeded
\* turns and one chat turn
C15_Witness ==
    /\ last.op = "feedback"
    /\ last.cid \in DOMAIN _CONVERSATIONS
    /\ last.reply \in ChatReplies
    /\ Len(HistoryOf(_CONVERSATIONS, last.cid)) = 7

\* C15 as stated: after a feedback request on a known conversation the
\* transcript is one turn longer.
C15_AsStated ==
    [][(last'.op = "feedback" /\ last'.cid \in DOMAIN _CONVERSATIONS)
       => Len(HistoryOf(_CONVERSATIONS', last'.cid))
             = Len(HistoryOf(_CONVERSATIONS, last'.cid)) + 1]_vars

----------------------------------------------------------------------------
(* Properties of the plan metadata *)

\* web_search returned data: a text that is not empty and not the
\* "(serper_error: ...)" text that describes a failed request
WebDataAvailable(web_text) ==
    /\ IsStr(web_text)
    /\ web_text[2] # <<>>
    /\ ~startswith(web_text[2], <<"(serper_error: ">>)

\* C16 as stated: in a plan built from a parsed mapping that is not empty,
\* metadata.sources_used holds only rag, web and llm, always llm, rag exactly
\* when retrieval returned a snippet, and web exactly when web_search
\* returned data (not when it was unavailable or its request failed).
C16_AsStated ==
    StartReturned
    => \A parsed \in {_parse_llm_json(last.arg.raw)} :
          (IsDict(parsed) /\ Truthy(parsed))
          => LET sources_used == last.reply.metadata.sources_used
                 used == {sources_used[i] : i \in 1..Len(sources_used)}
             IN  /\ used \subseteq {"rag", "web", "llm"}
                 /\ "llm" \in used
                 /\ "rag" \in used <=> last.arg.rag_ctx # <<>>
                 /\ "web" \in used <=> WebDataAvailable(last.arg.web_text)


\* the confidence the model's reply states: a JSON number
StatesNumber(parsed) ==
    /\ IsDict(parsed)
    /\ HasKey(parsed, <<"confidence", "_", "score">>)
    /\ IsNum(DictGet(parsed, <<"confidence", "_", "score">>, None))

\* C17 as stated: the plan of every conversation start_research returned has,
\* at creation and after any chat, edit and feedback, a confidence score in
\* [0, 1] (in hundredths: 0 to 100), and a returned plan has confidence 0.0
\* when the reply states no number.
C17_AsStated ==
    /\ \A c \in issued :
          LET score == _CONVERSATIONS[c].plan.metadata.confidence_score
          IN  IsNum(score) /\ 0 <= score[2] /\ score[2] <= 100
    /\ StartReturned
       => \A parsed \in {_parse_llm_json(last.arg.raw)} :
             ~StatesNumber(parsed) => last.reply.metadata.confidence_score = JNum(0)

----------------------------------------------------------------------------
(* Properties of the calls a chat request makes *)

\* the message asks for a chart whose data the plan stores (or the plan has
\* no sources at all, and the chart branch fails on them)
AsksStoredChart(plan, m) ==
    /\ WantsCompetitorChart(m) \/ WantsSwotChart(m)
    /\ ~IsDict(plan.sources) \/ Truthy(ChartData(plan, m))

----------------------------------------------------------------------------
(* Properties of a conversation's lifetime *)

\* history a is the start of history b
IsPrefix(a, b) == Len(a) <= Len(b) /\ SubSeq(b, 1, Len(a)) = a

\* C19: whatever request is served, every conversation whose identifier
\* start_research has returned stays in the store, and its transcript only
\* grows at the end: the earlier transcript is a prefix of the later one, so
\* no turn is removed, reordered or rewritten, and the seeded turns stay.
C19_TranscriptAppendOnly ==
    [][\A c \in issued :
          /\ c \in DOMAIN _CONVERSATIONS'
          /\ IsPrefix(HistoryOf(_CONVERSATIONS, c), HistoryOf(_CONVERSATIONS', c))]_vars

\* a conversation has taken the audit turn of an edit after its six seeded
\* turns, and a second conversation was started beside it
C19_Witness ==
    /\ ConversationIds[1] \in issued
    /\ Len(HistoryOf(_CONVERSATIONS, ConversationIds[1])) = 7
    /\ HistoryOf(_CONVERSATIONS, ConversationIds[1])[7].user
          = <<"System Edit: Update '">> \o TitleCompanyProfile \o <<"'">>
    /\ ConversationIds[2] \in DOMAIN _CONVERSATIONS

----------------------------------------------------------------------------
(* Properties of the conflict queue *)

\* the message of a known conversation is served as a conflict resolution:
\* the queue is not empty, the message asks for a deep dive, and neither a
\* stored chart nor the KPIs are asked for
AsksResolution(state, m) ==
    /\ ~AsksStoredChart(state.plan, m)
    /\ ~WantsKpi(m)
    /\ Truthy(state.conflicts_to_resolve)
    /\ WantsDeepDive(m)

\* C20 as stated: every conflict-resolution chat turn removes the oldest
\* conflict of the queue (so the k-th turn the k-th conflict the model
\* listed, the queue starting as that list), resolves it in a reply that
\* names its topic, and states as remaining count the length of the queue
\* it leaves.
C20_AsStated ==
    [][(/\ last'.op = "chat"
        /\ last'.cid \in DOMAIN _CONVERSATIONS
        /\ AsksResolution(_CONVERSATIONS[last'.cid], lower(strip(last'.arg.message))))
       => LET before == QueueOf(_CONVERSATIONS, last'.cid)
              after == QueueOf(_CONVERSATIONS', last'.cid)
              topic == DictGet(Head(before), <<"topic">>, JStr(<<"data discrepancy">>))
          IN  /\ after = Tail(before)
              /\ last'.err = ""
              /\ Contains(last'.reply,
                          <<"Conflict resolution for topic '">> \o topic[2]
                              \o <<"' is complete. Summary: ">>)
              /\ Contains(last'.reply,
                          <<" There are ">> \o str_int(Len(after))
                              \o <<" remaining conflicts. You can also ask to review updated sections such as competitors or market analysis.">>)]_vars

----------------------------------------------------------------------------
(* Properties of the attribute an edit writes beside the section *)

\* the plan attribute that has the normalized name of a section title: eight
\* titles name a narrative field, the others name no attribute ("")
SyncedField(section_title) ==
    CASE section_title = TitleCompanyProfile -> "company_profile"
      [] section_title = TitleMarketAnalysis -> "market_analysis"
      [] section_title = TitleFinancialHighlights -> "financial_highlights"
      [] section_title = TitleProductPortfolio -> "product_portfolio"
      [] section_title = TitleTechnologyStack -> "technology_stack"
      [] section_title = TitleCompetitors -> "competitors"
      [] section_title = TitleOpportunities -> "opportunities"
      [] section_title = TitleRisks -> "risks"
      [] OTHER -> ""

\* every section whose title names a narrative field holds that field's text
SectionsMatchFields(plan) ==
    \A i \in 1..Len(plan.sections) :
        SyncedField(plan.sections[i].title) # ""
        => plan.sections[i].content = plan[SyncedField(plan.sections[i].title)]

\* C21: a successful edit with title T writes the new content to the plan
\* attribute that has T's normalized name, when there is one, and leaves
\* every other attribute but sections as it was (so edits of "SWOT Analysis"
\* and "30-60-90 Day Plan" leave swot and account_plan_30_60_90 alone, and
\* no edit changes metadata, sources or kpi_summary); and in a plan built
\* from structured output, whatever the edits, the eight sections whose
\* titles name a narrative field equal that field.
C21_EditSyncsNarrativeField ==
    /\ [](\A c \in DOMAIN _CONVERSATIONS :
             Len(_CONVERSATIONS[c].plan.sections) = 10
             => SectionsMatchFields(_CONVERSATIONS[c].plan))
    /\ [][(last'.op = "edit" /\ last'.ok)
          => LET before == _CONVERSATIONS[last'.cid].plan
                 after == _CONVERSATIONS'[last'.cid].plan
                 field == SyncedField(last'.arg.section_title)
             IN  /\ DOMAIN after = DOMAIN before
                 /\ \A attr \in DOMAIN before \ {"sections"} :
                       IF attr = field THEN after[attr] = last'.arg.new_content
                       ELSE after[attr] = before[attr]]_vars

\* in a ten-section plan the SWOT section was edited first and the
\* Opportunities section next: swot is not the new content, opportunities is
C21_Witness ==
    /\ last.op = "edit"
    /\ last.ok
    /\ last.arg.section_title = TitleOpportunities
    /\ \E plan \in {_CONVERSATIONS[last.cid].plan} :
          /\ Len(plan.sections) = 10
          /\ plan.opportunities = last.arg.new_content
          /\ plan.sections[7].content = last.arg.new_content
          /\ plan.swot # last.arg.new_content
          /\ plan.sections[8].content = last.arg.new_content

----------------------------------------------------------------------------
(* Properties of concurrent requests on one conversation *)

\* thread t has left its handler, by a return or by an exception
Left(t) == threads[t].pc \in {"done", "failed"}

\* thread t serves a chat request of a known conversation whose message
\* mentions deep-dive
IsDeepDive(t) ==
    /\ threads[t].op = "chat"
    /\ threads[t].cid \in DOMAIN _CONVERSATIONS
    /\ WantsDeepDive(lower(strip(threads[t].message)))

\* every thread served a deep-dive chat on the same conversation and has left
\* its handler, and the first of them found exactly one conflict queued (none
\* found more, one found one: the queue only shrinks)
DeepDivesOnOneConflict ==
    /\ \A t \in ThreadIds : IsDeepDive(t) /\ Left(t)
    /\ \A t, u \in ThreadIds : threads[t].cid = threads[u].cid
    /\ \A t \in ThreadIds : IsList(threads[t].queue) /\ Len(threads[t].queue[2]) <= 1
    /\ \E t \in ThreadIds :
          /\ Len(threads[t].queue[2]) = 1
          /\ IsDict(threads[t].queue[2][1])

\* C22, as stated: concurrent deep-dive chats on a conversation that has one
\* conflict queued never pop from the empty queue, and when none of them
\* fails, one of them resolved the conflict, the others were answered by
\* another branch and the queue is empty.
C22_AsStated ==
    DeepDivesOnOneConflict
    => /\ \A t \in ThreadIds : threads[t].err # "IndexError"
       /\ (\A t \in ThreadIds : threads[t].err = "")
          => /\ Cardinality({t \in ThreadIds : threads[t].branch = "conflict"}) = 1
             /\ \A t \in ThreadIds :
                   _CONVERSATIONS[threads[t].cid].conflicts_to_resolve = JList(<<>>)

\* the threads that returned after they appended a turn: chats of a known
\* conversation and edits of a section it has
Appended ==
    {t \in ThreadIds : threads[t].pc = "done"
                       /\ threads[t].branch \notin {"invalid", "not_found"}}

\* the number of turns of the sequence s, from position n + 1 on, equal to x
CountFrom(s, n, x) == Cardinality({i \in (n + 1)..Len(s) : s[i] = x})

\* the length of the transcript before the first of the threads entered
Before == CHOOSE n \in {threads[t].seen : t \in Appended} :
              \A t \in Appended : n <= threads[t].seen

\* C23: when every request made returned after a successful chat or edit on
\* one known conversation, however their steps interleaved, the transcript
\* is as many turns longer than before the first of them as there are
\* requests, and holds each request's turn as often as requests made it.
C23_NoTurnLost ==
    (/\ Appended # {}
     /\ \A t \in ThreadIds : threads[t].pc = "idle" \/ t \in Appended
     /\ \A t, u \in Appended : threads[t].cid = threads[u].cid)
    => LET history == _CONVERSATIONS[threads[CHOOSE t \in Appended : TRUE].cid].history
       IN  /\ Len(history) = Before + Cardinality(Appended)
           /\ \A t \in Appended :
                 CountFrom(history, Before, threads[t].turn)
                     = Cardinality({u \in Appended : threads[u].turn = threads[t].turn})

\* a deep-dive chat and an edit that both entered before either appended
\* its turn, and both returned
C23_Witness ==
    /\ Appended = ThreadIds
    /\ \A t, u \in ThreadIds : threads[t].seen = threads[u].seen
    /\ \E t, u \in ThreadIds :
          /\ threads[t].branch = "conflict"
          /\ threads[u].branch = "edit"

====
